---- MODULE Spec2Model ----
(***************************************************************************)
(* Verification model of the scouting analytics engine                     *)
(* (src/scouting: features.py, matchups.py, scenarios.py, randomness.py,   *)
(* report.py).  The engine is a set of functions over a list of            *)
(* GameRecords.  Every function is an operator translated from its Python  *)
(* body; every specification draws the call's inputs in Init and has one   *)
(* action per engine entry point, which records the call in `call` and the *)
(* value returned (or the exception raised) in `ret`.                      *)
(*                                                                         *)
(* Numbers.  Python floats that are ratios of integers are kept as exact   *)
(* fractions [n, d].  Values that go through math.log are kept in          *)
(* fixed point, Unit = 1.0, truncated towards zero.                        *)
(***************************************************************************)
EXTENDS Integers, Sequences, FiniteSets, TLC

VARIABLES
    games,      \* the game list handed to the engine (List[GameRecord])
    stats,      \* a MatchupStats object (matchups.py:11)
    env,        \* the process: [hashSeed |-> the salt of str hashes (PYTHONHASHSEED)]
    call,       \* the last engine call: [fn |-> name, ...arguments]
    ret,        \* what that call returned, or [raised |-> exception name]
    runs        \* log of the clustering runs of this process, oldest first

vars == <<games, stats, env, call, ret, runs>>

(***************************************************************************)
(* Bounds of the model.                                                    *)
(***************************************************************************)
MaxGames == 3
MaxStatGames == 21

(***************************************************************************)
(* Python values.                                                          *)
(***************************************************************************)
None == "None"
\* truthiness of an Optional[str]: None and "" are both falsy
Truthy(s) == s # None /\ s # ""
\* Optional[bool], kept as the strings "True" / "False" / None
WonValues == {"True", "False", None}

NoCall == [fn |-> "none"]
NoRet == [raised |-> "nothing"]
Returned(fn) == call.fn = fn /\ ~("raised" \in DOMAIN ret)

(***************************************************************************)
(* Exact fractions.                                                        *)
(***************************************************************************)
Frac(a, b) == [n |-> a, d |-> b]
FracEq(x, y) == x.n * y.d = y.n * x.d
FracLe(x, y) == x.n * y.d <= y.n * x.d
FracLt(x, y) == x.n * y.d < y.n * x.d
FracMin(x, y) == IF FracLe(x, y) THEN x ELSE y
Zero == Frac(0, 1)
One == Frac(1, 1)

Range(s) == {s[i] : i \in DOMAIN s}

RECURSIVE SeqsUpTo(_, _)
\* all sequences over S of length 0..n
SeqsUpTo(S, n) ==
    IF n = 0 THEN {<<>>}
    ELSE LET shorter == SeqsUpTo(S, n - 1)
         IN  shorter \cup {Append(s, x) : s \in {t \in shorter : Len(t) = n - 1}, x \in S}

RECURSIVE SumSeq(_)
SumSeq(s) == IF s = <<>> THEN 0 ELSE s[1] + SumSeq(Tail(s))

\* concatenation of F(s[1]), F(s[2]), ...
FlatMap(s, F(_)) ==
    LET f[i \in 0..Len(s)] == IF i = 0 THEN <<>> ELSE f[i - 1] \o F(s[i])
    IN  f[Len(s)]

RECURSIVE Dedup(_)
\* the distinct elements of s in first-occurrence order (dict insertion order)
Dedup(s) ==
    IF s = <<>> THEN <<>>
    ELSE LET front == Dedup(SubSeq(s, 1, Len(s) - 1))
             last == s[Len(s)]
         IN  IF last \in Range(front) THEN front ELSE Append(front, last)

\* the list [F(1), ..., F(n)]
Tab(n, F(_)) ==
    LET f[i \in 0..n] == IF i = 0 THEN <<>> ELSE Append(f[i - 1], F(i))
    IN  f[n]

\* the list [F(s[1]), ..., F(s[n])]
MapSeq(s, F(_)) ==
    LET f[i \in 0..Len(s)] == IF i = 0 THEN <<>> ELSE Append(f[i - 1], F(s[i]))
    IN  f[Len(s)]

Count(s, P(_)) == Cardinality({i \in DOMAIN s : P(s[i])})

\* a dict as the list of its items, in insertion order
Items(seq) == MapSeq(Dedup(seq), LAMBDA key : [k |-> key, v |-> Count(seq, LAMBDA c : c = key)])

\* dict.get(key, 0.0)
Get(dist, key) ==
    LET hits == SelectSeq(dist, LAMBDA e : e.k = key)
    IN  IF hits = <<>> THEN 0 ELSE hits[1].v

\* the values of a Counter, in the order of its keys
CounterValues(seq) == MapSeq(Items(seq), LAMBDA e : Frac(e.v, 1))

\* list.sort(key=..., reverse=True): descending, stable (equal keys keep
\* their original order); Lt(a, b) is key(a) < key(b)
SortDescBy(s, Lt(_, _)) ==
    LET Insert(front, x) ==
            \* x goes after every element whose key is >= key(x)
            LET keep == Cardinality({i \in DOMAIN front : \A j \in 1..i : ~Lt(front[j], x)})
            IN  SubSeq(front, 1, keep) \o <<x>> \o SubSeq(front, keep + 1, Len(front))
        f[i \in 0..Len(s)] == IF i = 0 THEN <<>> ELSE Insert(f[i - 1], s[i])
    IN  f[Len(s)]

\* sorted(s, key=...): ascending, stable; Lt(a, b) is key(a) < key(b)
SortAscBy(s, Lt(_, _)) ==
    LET Insert(front, x) ==
            \* x goes after every element whose key is <= key(x)
            LET keep == Cardinality({i \in DOMAIN front : \A j \in 1..i : ~Lt(x, front[j])})
            IN  SubSeq(front, 1, keep) \o <<x>> \o SubSeq(front, keep + 1, Len(front))
        f[i \in 0..Len(s)] == IF i = 0 THEN <<>> ELSE Insert(f[i - 1], s[i])
    IN  f[Len(s)]

(***************************************************************************)
(* The game record model (normalize.py:18-46).                             *)
(***************************************************************************)
PlayerPerf(pid, role, ch) ==
    [player_id |-> pid, name |-> None, role |-> role, character |-> ch,
     kills |-> 1, deaths |-> 1]

TeamGameState(tid, won, kills, deaths, players) ==
    [team_id |-> tid, won |-> won, kills |-> kills, deaths |-> deaths,
     players |-> players]

\* normalize.py:118-123
_result_from_states(team, opponent) ==
    IF team.won = "True" THEN "win"
    ELSE IF opponent.won = "True" THEN "loss"
    ELSE "unknown"

GameRecord(ts, team, opponent) ==
    [series_id |-> "s", game_number |-> 1, start_time |-> ts,
     team |-> team, opponent |-> opponent,
     result |-> _result_from_states(team, opponent)]

\* `g.opponent if side == "opponent" else g.team`
SideState(g, side) == IF side = "opponent" THEN g.opponent ELSE g.team
Sides == {"team", "opponent"}

(***************************************************************************)
(* Feature aggregators (features.py).                                      *)
(***************************************************************************)
\* mutant: the `if state.won is None: continue` guard is lost
WinratePicks_any_outcome(gs, side) ==
    FlatMap(gs, LAMBDA g :
        FlatMap(SideState(g, side).players, LAMBDA p :
            IF ~Truthy(p.character) THEN <<>>
            ELSE <<[character |-> p.character, won |-> SideState(g, side).won]>>))

\* features.py:74-80: the picks the loop counts, in loop order: games whose
\* outcome on that side is None are skipped, players without a character too
WinratePicks(gs, side) ==
    FlatMap(gs, LAMBDA g :
        LET state == SideState(g, side)
        IN  IF state.won = None THEN <<>>
            ELSE FlatMap(state.players, LAMBDA p :
                    IF ~Truthy(p.character) THEN <<>>
                    ELSE <<[character |-> p.character, won |-> state.won]>>))

\* mutant: the pick is counted in an else branch, only when the game was not won
ChampCount_else_branch(picks, ch) ==
    Count(picks, LAMBDA x : x.character = ch /\ x.won # "True")

\* features.py:81  counts[p.character] += 1
ChampCount(picks, ch) == Count(picks, LAMBDA x : x.character = ch)

\* features.py:82-83  if state.won is True: wins[p.character] += 1
ChampWins(picks, ch) == Count(picks, LAMBDA x : x.character = ch /\ x.won = "True")

\* mutant: key=(stable, winrate, games)
RowKeyLt_winrate_first(a, b) ==
    IF a.stable # b.stable THEN b.stable
    ELSE IF ~FracEq(a.winrate, b.winrate) THEN FracLt(a.winrate, b.winrate)
    ELSE a.games < b.games

\* features.py:97  key=(stable, games, winrate); False < True
RowKeyLt(a, b) ==
    IF a.stable # b.stable THEN b.stable
    ELSE IF a.games # b.games THEN a.games < b.games
    ELSE FracLt(a.winrate, b.winrate)

\* features.py:69-98
compute_champion_winrates(gs, side, min_games) ==
    LET picks == WinratePicks(gs, side)
        champs == Dedup([i \in DOMAIN picks |-> picks[i].character])
        rows == [i \in DOMAIN champs |->
                    LET n == ChampCount(picks, champs[i])
                        w == ChampWins(picks, champs[i])
                    IN  [character |-> champs[i],
                         games |-> n,
                         wins |-> w,
                         winrate |-> IF n # 0 THEN Frac(w, n) ELSE Zero,
                         stable |-> n >= min_games]]
    IN  SortDescBy(rows, RowKeyLt)

RECURSIVE TopSum(_, _, _)
\* sum(v for _, v in sorted(d.items(), key=value, reverse=True)[:n])
TopSum(d, keys, n) ==
    IF n = 0 \/ keys = {} THEN 0
    ELSE LET m == CHOOSE x \in keys : \A y \in keys : d[x] >= d[y]
         IN  d[m] + TopSum(d, keys \ {m}, n - 1)

\* features.py:106-109  the distinct truthy player ids of one game's side
SeenIds(g, side) ==
    {p.player_id : p \in {q \in Range(SideState(g, side).players) : Truthy(q.player_id)}}

\* features.py:101-119
compute_roster_stability(gs, side) ==
    LET ids == UNION {SeenIds(gs[i], side) : i \in DOMAIN gs}
        player_games == [pid \in ids |->
                            Cardinality({i \in DOMAIN gs : pid \in SeenIds(gs[i], side)})]
        total == Len(gs)
        top5 == TopSum(player_games, ids, 5)
    IN  [unique_players |-> Cardinality(ids),
         games_total |-> total,
         top5_share |-> IF total # 0 THEN Frac(top5, total) ELSE Zero]

(***************************************************************************)
(* math.log(x, 2) in fixed point.                                          *)
(***************************************************************************)
\* the fixed-point representation of the float 1.0
Unit == 10000

\* round(log2(n) * Unit) for n = 1..600
Log2Table ==
   <<
      0, 10000, 15850, 20000, 23219, 25850, 28074, 30000, 31699, 33219,
      34594, 35850, 37004, 38074, 39069, 40000, 40875, 41699, 42479, 43219,
      43923, 44594, 45236, 45850, 46439, 47004, 47549, 48074, 48580, 49069,
      49542, 50000, 50444, 50875, 51293, 51699, 52095, 52479, 52854, 53219,
      53576, 53923, 54263, 54594, 54919, 55236, 55546, 55850, 56147, 56439,
      56724, 57004, 57279, 57549, 57814, 58074, 58329, 58580, 58826, 59069,
      59307, 59542, 59773, 60000, 60224, 60444, 60661, 60875, 61085, 61293,
      61497, 61699, 61898, 62095, 62288, 62479, 62668, 62854, 63038, 63219,
      63399, 63576, 63750, 63923, 64094, 64263, 64429, 64594, 64757, 64919,
      65078, 65236, 65392, 65546, 65699, 65850, 65999, 66147, 66294, 66439,
      66582, 66724, 66865, 67004, 67142, 67279, 67415, 67549, 67682, 67814,
      67944, 68074, 68202, 68329, 68455, 68580, 68704, 68826, 68948, 69069,
      69189, 69307, 69425, 69542, 69658, 69773, 69887, 70000, 70112, 70224,
      70334, 70444, 70553, 70661, 70768, 70875, 70980, 71085, 71189, 71293,
      71396, 71497, 71599, 71699, 71799, 71898, 71997, 72095, 72192, 72288,
      72384, 72479, 72574, 72668, 72761, 72854, 72946, 73038, 73129, 73219,
      73309, 73399, 73487, 73576, 73663, 73750, 73837, 73923, 74009, 74094,
      74179, 74263, 74346, 74429, 74512, 74594, 74676, 74757, 74838, 74919,
      74998, 75078, 75157, 75236, 75314, 75392, 75469, 75546, 75622, 75699,
      75774, 75850, 75925, 75999, 76073, 76147, 76221, 76294, 76366, 76439,
      76511, 76582, 76653, 76724, 76795, 76865, 76935, 77004, 77074, 77142,
      77211, 77279, 77347, 77415, 77482, 77549, 77616, 77682, 77748, 77814,
      77879, 77944, 78009, 78074, 78138, 78202, 78265, 78329, 78392, 78455,
      78517, 78580, 78642, 78704, 78765, 78826, 78887, 78948, 79009, 79069,
      79129, 79189, 79248, 79307, 79366, 79425, 79484, 79542, 79600, 79658,
      79715, 79773, 79830, 79887, 79944, 80000, 80056, 80112, 80168, 80224,
      80279, 80334, 80389, 80444, 80498, 80553, 80607, 80661, 80715, 80768,
      80821, 80875, 80928, 80980, 81033, 81085, 81137, 81189, 81241, 81293,
      81344, 81396, 81447, 81497, 81548, 81599, 81649, 81699, 81749, 81799,
      81849, 81898, 81948, 81997, 82046, 82095, 82143, 82192, 82240, 82288,
      82336, 82384, 82432, 82479, 82527, 82574, 82621, 82668, 82715, 82761,
      82808, 82854, 82900, 82946, 82992, 83038, 83083, 83129, 83174, 83219,
      83264, 83309, 83354, 83399, 83443, 83487, 83531, 83576, 83619, 83663,
      83707, 83750, 83794, 83837, 83880, 83923, 83966, 84009, 84051, 84094,
      84136, 84179, 84221, 84263, 84305, 84346, 84388, 84429, 84471, 84512,
      84553, 84594, 84635, 84676, 84717, 84757, 84798, 84838, 84878, 84919,
      84959, 84998, 85038, 85078, 85118, 85157, 85196, 85236, 85275, 85314,
      85353, 85392, 85430, 85469, 85507, 85546, 85584, 85622, 85661, 85699,
      85736, 85774, 85812, 85850, 85887, 85925, 85962, 85999, 86036, 86073,
      86110, 86147, 86184, 86221, 86257, 86294, 86330, 86366, 86402, 86439,
      86475, 86511, 86546, 86582, 86618, 86653, 86689, 86724, 86760, 86795,
      86830, 86865, 86900, 86935, 86970, 87004, 87039, 87074, 87108, 87142,
      87177, 87211, 87245, 87279, 87313, 87347, 87381, 87415, 87448, 87482,
      87515, 87549, 87582, 87616, 87649, 87682, 87715, 87748, 87781, 87814,
      87846, 87879, 87912, 87944, 87977, 88009, 88041, 88074, 88106, 88138,
      88170, 88202, 88234, 88265, 88297, 88329, 88361, 88392, 88424, 88455,
      88486, 88517, 88549, 88580, 88611, 88642, 88673, 88704, 88734, 88765,
      88796, 88826, 88857, 88887, 88918, 88948, 88978, 89009, 89039, 89069,
      89099, 89129, 89159, 89189, 89218, 89248, 89278, 89307, 89337, 89366,
      89396, 89425, 89454, 89484, 89513, 89542, 89571, 89600, 89629, 89658,
      89687, 89715, 89744, 89773, 89801, 89830, 89858, 89887, 89915, 89944,
      89972, 90000, 90028, 90056, 90084, 90112, 90140, 90168, 90196, 90224,
      90251, 90279, 90307, 90334, 90362, 90389, 90417, 90444, 90471, 90498,
      90526, 90553, 90580, 90607, 90634, 90661, 90688, 90715, 90741, 90768,
      90795, 90821, 90848, 90875, 90901, 90928, 90954, 90980, 91007, 91033,
      91059, 91085, 91111, 91137, 91163, 91189, 91215, 91241, 91267, 91293,
      91319, 91344, 91370, 91396, 91421, 91447, 91472, 91497, 91523, 91548,
      91573, 91599, 91624, 91649, 91674, 91699, 91724, 91749, 91774, 91799,
      91824, 91849, 91874, 91898, 91923, 91948, 91972, 91997, 92021, 92046,
      92070, 92095, 92119, 92143, 92167, 92192, 92216, 92240, 92264, 92288
   >>

Log2(n) == Log2Table[n]

RECURSIVE Gcd(_, _)
Gcd(a, b) == IF b = 0 THEN a ELSE Gcd(b, a % b)

RECURSIVE GcdSeq(_)
GcdSeq(s) == IF s = <<>> THEN 0 ELSE Gcd(s[1], GcdSeq(Tail(s)))

Lcm(a, b) == (a * b) \div Gcd(a, b)

RECURSIVE LcmSeq(_)
LcmSeq(s) == IF s = <<>> THEN 1 ELSE Lcm(s[1], LcmSeq(Tail(s)))

\* a sequence of fractions as the integers in the same proportions with no
\* common factor: v / total is the same float for both
Proportions(values) ==
    LET den == LcmSeq(MapSeq(values, LAMBDA v : v.d))
        ints == MapSeq(values, LAMBDA v : v.n * (den \div v.d))
        g == GcdSeq(ints)
    IN  IF g = 0 THEN ints ELSE MapSeq(ints, LAMBDA v : v \div g)

\* The quotient ent / max_ent is a quotient of two rounded doubles.  For the
\* uniform distribution over k values the exact quotient is 1; entry k is the
\* direction in which the double CPython computes differs from 1 (k = 7
\* gives 1.0000000000000002, k = 3 gives 0.9999999999999999).  One step of
\* the fixed-point grid stands for that last place.
UniformEntropyRounding ==
    << 0, 0, -1, 0, 0, 0, 1, 0, -1, -1, 1, -1, 1, 1, -1, 0, 0, 1, 1, 0,
       -1, -1, 0, -1, -1, -1, 1, -1, -1, 0 >>

\* features.py:36-42 on the positive proportions v / total = probs[i] / total
EntropyOfProbs(total, probs) ==
    IF probs = <<>> THEN 0
    ELSE IF Len(probs) > 1 /\ \A i \in DOMAIN probs : probs[i] = probs[1]
         THEN Unit + UniformEntropyRounding[Len(probs)]
    ELSE LET \* -sum(p * log2(p)) with p = v / total
             ent == SumSeq(MapSeq(probs, LAMBDA v : v * (Log2(total) - Log2(v)))) \div total
             max_ent == IF Len(probs) > 1 THEN Log2(Len(probs)) ELSE Unit
         IN  IF max_ent = 0 THEN 0 ELSE (ent * Unit) \div max_ent

\* features.py:32-35
EntropyOfInts(ints) ==
    IF SumSeq(ints) <= 0 THEN 0
    ELSE EntropyOfProbs(SumSeq(ints), SelectSeq(ints, LAMBDA v : v > 0))

\* features.py:31-42; `values` are the dict's values, the result is in Units
_entropy(values) == EntropyOfInts(Proportions(values))

(***************************************************************************)
(* MatchupStats (matchups.py:11-20).                                       *)
(***************************************************************************)
MatchupStats(g, w) == [games |-> g, wins |-> w]

posterior_winrate_no_beta(self, alpha, beta) ==
    Frac(self.wins + alpha, self.games + alpha)

\* matchups.py:16-17
posterior_winrate(self, alpha, beta) ==
    Frac(self.wins + alpha, self.games + alpha + beta)

\* matchups.py:19-20
confidence(self) ==
    IF self.games # 0 THEN FracMin(One, Frac(self.games, 20)) ELSE Zero

\* mutant: a later player of the same role overwrites the earlier one
_index_by_role_last_wins(players) ==
    LET f[i \in 0..Len(players)] ==
            IF i = 0 THEN <<>>
            ELSE LET p == players[i]
                 IN  IF Truthy(p.role) /\ Truthy(p.character)
                     THEN [r \in DOMAIN f[i - 1] \cup {p.role} |->
                              IF r = p.role THEN p ELSE f[i - 1][r]]
                     ELSE f[i - 1]
    IN  f[Len(players)]

\* matchups.py:23-29: role -> the first player listed with that role and a
\* character
_index_by_role(players) ==
    LET f[i \in 0..Len(players)] ==
            IF i = 0 THEN <<>>
            ELSE LET p == players[i]
                 IN  IF Truthy(p.role) /\ Truthy(p.character) /\ p.role \notin DOMAIN f[i - 1]
                     THEN [r \in DOMAIN f[i - 1] \cup {p.role} |->
                              IF r = p.role THEN p ELSE f[i - 1][r]]
                     ELSE f[i - 1]
    IN  f[Len(players)]

\* matchups.py:36-44: the keys one game contributes to
MatchupKeys(g) ==
    LET team_by_role == _index_by_role(g.team.players)
        opp_by_role == _index_by_role(g.opponent.players)
    IN  {<<role, team_by_role[role].character, opp_by_role[role].character>> :
            role \in DOMAIN team_by_role \cap DOMAIN opp_by_role}

\* matchups.py:45-48: one game's updates of the table (a defaultdict)
MatchupAddGame(table, g) ==
    [key \in DOMAIN table \cup MatchupKeys(g) |->
        LET old == IF key \in DOMAIN table THEN table[key] ELSE MatchupStats(0, 0)
        IN  IF key \in MatchupKeys(g)
            THEN MatchupStats(old.games + 1,
                              old.wins + (IF g.team.won = "True" THEN 1 ELSE 0))
            ELSE old]

\* matchups.py:32-49
build_matchup_table(gs) ==
    LET f[i \in 0..Len(gs)] == IF i = 0 THEN <<>> ELSE MatchupAddGame(f[i - 1], gs[i])
    IN  f[Len(gs)]

(***************************************************************************)
(* Scenario clustering (scenarios.py).                                     *)
(* The process modelled cannot import sklearn: both `from sklearn ...`     *)
(* statements raise inside their try blocks and the except branches run.   *)
(***************************************************************************)
\* scenarios.py:27  dim: int = 32
Dim == 32

Abs(x) == IF x < 0 THEN -x ELSE x

\* the strings hashed, as numbers
StrCode(str) ==
    CASE str = "top" -> 1 [] str = "mid" -> 2 [] str = "Gnar" -> 3 [] str = "Ornn" -> 5
      [] str = "jungle" -> 4 [] str = "bot" -> 6 [] str = "support" -> 7
      [] str = "Vi" -> 8 [] str = "Sejuani" -> 9 [] str = "Ahri" -> 10
      [] str = "Jinx" -> 11 [] str = "Lulu" -> 12
      [] OTHER -> 13

\* hash(f"{role}:{character}") of a process whose hash salt is `seed`: a
\* signed value that depends on the salt.  Salt 0 sends the four role:pick
\* strings to four buckets, salt 1 sends top:Gnar and top:Ornn to the same.
PyHash(seed, role, character) ==
    (((StrCode(role) * 16 + StrCode(character)) * (seed + 37) + 107 * seed) % 257) - 128

HashSeeds == {0, 1}

\* scenarios.py:23-24
_hash_feature(role, character, dim) == Abs(PyHash(env.hashSeed, role, character)) % dim

\* scenarios.py:27-38: indices 1..dim are the hashed buckets 0..dim-1
_game_vector(game, dim) ==
    LET hashed == FlatMap(game.opponent.players, LAMBDA p :
                      IF Truthy(p.role) /\ Truthy(p.character)
                      THEN <<_hash_feature(p.role, p.character, dim)>> ELSE <<>>)
    IN  Tab(dim + 3, LAMBDA j :
            IF j <= dim THEN Count(hashed, LAMBDA h : h = j - 1)
            ELSE IF j = dim + 1 THEN game.opponent.kills
            ELSE IF j = dim + 2 THEN game.opponent.deaths
            ELSE IF game.opponent.won = "True" THEN 1 ELSE 0)

\* A centre is the mean of `cnt` vectors whose sum is `sum`.
Centre(sum, cnt) == [sum |-> sum, cnt |-> cnt]

\* scenarios.py:41-42, squared: the order of distances is that of squares
_euclidean2(v, c) ==
    LET sq[j \in 0..Len(v)] ==
            IF j = 0 THEN 0
            ELSE sq[j - 1] + (v[j] * c.cnt - c.sum[j]) * (v[j] * c.cnt - c.sum[j])
    IN  Frac(sq[Len(v)], c.cnt * c.cnt)

\* scenarios.py:52  min(range(k), key=...): the lowest index at minimal distance
NearestCentre(v, centers) ==
    LET dist == Tab(Len(centers), LAMBDA c : _euclidean2(v, centers[c]))
    IN  (CHOOSE c \in DOMAIN centers :
            \A o \in DOMAIN centers :
                IF o < c THEN FracLt(dist[c], dist[o]) ELSE FracLe(dist[c], dist[o])) - 1

\* scenarios.py:53-57: the mean of the centre's vectors; unchanged if none
UpdatedCentre(vectors, labels, c, old) ==
    LET members == {i \in DOMAIN vectors : labels[i] = c}
        col[j \in DOMAIN vectors[1]] ==
            LET part[i \in 0..Len(vectors)] ==
                    IF i = 0 THEN 0
                    ELSE part[i - 1] + (IF i \in members THEN vectors[i][j] ELSE 0)
            IN  part[Len(vectors)]
    IN  IF members = {} THEN old
        ELSE Centre(Tab(Len(vectors[1]), LAMBDA j : col[j]), Cardinality(members))

\* scenarios.py:50-57: one pass of the loop body
KMeansRound(vectors, centers) ==
    LET labels == Tab(Len(vectors), LAMBDA i : NearestCentre(vectors[i], centers))
    IN  [labels |-> labels,
         centers |-> Tab(Len(centers), LAMBDA c :
                         UpdatedCentre(vectors, labels, c - 1, centers[c]))]

RECURSIVE KMeansRounds(_, _, _)
\* `rounds` passes; a pass that moves no centre is repeated unchanged by
\* every later pass, so the remaining ones are not recomputed
KMeansRounds(vectors, st, rounds) ==
    IF rounds = 0 THEN st
    ELSE LET next == KMeansRound(vectors, st.centers)
         IN  IF next.centers = st.centers THEN next
             ELSE KMeansRounds(vectors, next, rounds - 1)

\* the results random.sample(range(n), k) can have: k distinct positions in
\* any order
Samples(n, k) ==
    {smp \in [1..k -> 1..n] : \A a, b \in 1..k : a # b => smp[a] # smp[b]}

\* mutant: the centres are the first k vectors, whatever was sampled
_kmeans_fallback_first_k(vectors, k, sample, iterations) ==
    IF vectors = <<>> THEN <<>>
    ELSE KMeansRounds(vectors,
                      [labels |-> Tab(Len(vectors), LAMBDA i : 0),
                       centers |-> Tab(k, LAMBDA c :
                                      Centre(vectors[IF c <= Len(vectors) THEN c ELSE 1], 1))],
                      iterations).labels

\* scenarios.py:45-58; `sample` is what random.sample drew
_kmeans_fallback(vectors, k, sample, iterations) ==
    IF vectors = <<>> THEN <<>>
    ELSE LET centers == IF Len(vectors) >= k
                        THEN Tab(k, LAMBDA c : Centre(vectors[sample[c]], 1))
                        ELSE Tab(k, LAMBDA c : Centre(vectors[1], 1))
         IN  KMeansRounds(vectors,
                          [labels |-> Tab(Len(vectors), LAMBDA i : 0), centers |-> centers],
                          iterations).labels

Min(a, b) == IF a <= b THEN a ELSE b
Max(a, b) == IF a >= b THEN a ELSE b

\* scenarios.py:61-80 (line 66 raises ImportError, line 80 returns)
_choose_k(vectors) ==
    LET n == Len(vectors)
    IN  IF n <= 2 THEN Max(1, n) ELSE Min(3, n)

\* the draws random.sample can make in one clustering of gs
ClusterSamples(gs) ==
    LET n == Len(gs)
        k == _choose_k([i \in DOMAIN gs |-> <<>>])
    IN  IF n = 0 \/ k = 1 \/ n < k THEN {<<>>} ELSE Samples(n, k)

\* Counter.most_common(1)[0][0]: the first key, in insertion order, with
\* the highest count; `keys` is the insertion order, `seq` what was counted
MostCommon(seq) ==
    LET keys == Dedup(seq)
        cnt(x) == Count(seq, LAMBDA y : y = x)
        i == CHOOSE a \in DOMAIN keys :
                \A b \in DOMAIN keys :
                    IF b < a THEN cnt(keys[b]) < cnt(keys[a]) ELSE cnt(keys[b]) <= cnt(keys[a])
    IN  keys[i]

\* scenarios.py:107-132: the card of cluster cid, whose games are gs[idx]
ScenarioCard(gs, cid, idx) ==
    LET cluster_games == Tab(Len(idx), LAMBDA i : gs[idx[i]])
        players == FlatMap(cluster_games, LAMBDA g : g.opponent.players)
        with_role == SelectSeq(players, LAMBDA p : Truthy(p.role) /\ Truthy(p.character))
        with_champ == SelectSeq(players, LAMBDA p : Truthy(p.character))
        champs == Tab(Len(with_champ), LAMBDA i : with_champ[i].character)
        roles == {with_role[i].role : i \in DOMAIN with_role}
        champ_keys == Dedup(champs)
        PicksIn(role) ==
            LET own == SelectSeq(with_role, LAMBDA p : p.role = role)
            IN  Tab(Len(own), LAMBDA i : own[i].character)
    IN  [scenario_id |-> cid,
         share |-> Frac(Len(idx), Len(gs)),
         winrate |-> Frac(Count(cluster_games, LAMBDA g : g.opponent.won = "True"),
                          Len(cluster_games)),
         signature_picks |-> [role \in roles |-> MostCommon(PicksIn(role))],
         volatility |-> _entropy(CounterValues(champs)),
         punish_plan |-> IF champ_keys # <<>>
                         THEN [text |-> "ban",
                               picks |-> SubSeq(champ_keys, 1, Min(2, Len(champ_keys)))]
                         ELSE [text |-> "deny comfort picks", picks |-> <<>>]]

CardShareLt(a, b) == FracLt(a.share, b.share)

\* the indices i, ascending, of the elements of seq that equal x
IndicesOf(seq, x) ==
    LET f[i \in 0..Len(seq)] ==
            IF i = 0 THEN <<>>
            ELSE IF seq[i] = x THEN Append(f[i - 1], i) ELSE f[i - 1]
    IN  f[Len(seq)]

\* mutant: clusters[int(label)] = [g], each game replacing the cluster's last
Clusters_overwritten(labels) ==
    LET cids == Dedup(labels)
    IN  Tab(Len(cids), LAMBDA c :
            [cid |-> cids[c],
             games |-> <<IndicesOf(labels, cids[c])[Len(IndicesOf(labels, cids[c]))]>>])

\* scenarios.py:103-105: the label -> games dict as (cid, indices of its
\* games), in insertion order
Clusters(labels) ==
    LET cids == Dedup(labels)
    IN  Tab(Len(cids), LAMBDA c : [cid |-> cids[c], games |-> IndicesOf(labels, cids[c])])

\* scenarios.py:107-135: the cards, sorted by share
Cards(gs, clusters) ==
    SortDescBy(Tab(Len(clusters), LAMBDA c :
                   ScenarioCard(gs, clusters[c].cid, clusters[c].games)),
               CardShareLt)

\* scenarios.py:89-101 (line 91 raises ImportError, lines 100-101 run)
Labels(vectors, k, sample) ==
    IF k = 1 THEN Tab(Len(vectors), LAMBDA i : 0)
    ELSE _kmeans_fallback(vectors, k, sample, 10)

\* what a clustering run computed.  cards: the ScenarioCards; labels: one
\* per game; clusters: the label -> games dict; vectors: the feature
\* vectors that were clustered
ClusteringOf(gs, vectors, labels, clusters) ==
    [cards |-> Cards(gs, clusters), labels |-> labels, clusters |-> clusters,
     vectors |-> vectors]

Clustering(gs, vectors, labels) == ClusteringOf(gs, vectors, labels, Clusters(labels))

ClusterVectors(gs, vectors, sample) ==
    Clustering(gs, vectors, Labels(vectors, _choose_k(vectors), sample))

\* scenarios.py:83-135
cluster_scenarios_with_labels(gs, sample) ==
    IF gs = <<>> THEN [cards |-> <<>>, labels |-> <<>>, clusters |-> <<>>, vectors |-> <<>>]
    ELSE ClusterVectors(gs, Tab(Len(gs), LAMBDA i : _game_vector(gs[i], Dim)), sample)

(***************************************************************************)
(* Randomness score (randomness.py).  Entropies, the drift and the score   *)
(* are fixed-point numbers: Unit is 1.0, and 100 * Unit is the score 100.  *)
(***************************************************************************)
\* the start_time strings of the model, in the order of Python's str <
TimeStrings ==
    << "", "2025-11-01T12:00:00Z", "2025-12-01T12:00:00", "2025-12-01T12:00:00Z",
       "2999-01-01T00:00:00Z", "not-a-time" >>

StrLt(a, b) ==
    (CHOOSE i \in DOMAIN TimeStrings : TimeStrings[i] = a)
        < (CHOOSE i \in DOMAIN TimeStrings : TimeStrings[i] = b)

\* the characters the opponent's players picked, in loop order
OpponentPicks(gs) ==
    FlatMap(gs, LAMBDA g :
        FlatMap(g.opponent.players, LAMBDA p :
            IF Truthy(p.character) THEN <<p.character>> ELSE <<>>))

\* randomness.py:12-18: character -> number of picks
_distribution_from_games(gs) == Items(OpponentPicks(gs))

\* randomness.py:21-25, on the dict's values
_normalize(values) ==
    IF SumSeq(values) <= 0 THEN MapSeq(values, LAMBDA v : Zero)
    ELSE MapSeq(values, LAMBDA v : Frac(v, SumSeq(values)))

\* log2(a / b) of two positive fractions, in Units
Log2Ratio(a, b) ==
    LET num == a.n * b.d
        den == a.d * b.n
        g == Gcd(num, den)
    IN  Log2(num \div g) - Log2(den \div g)

\* a + b, reduced
FracAdd(a, b) ==
    LET n == a.n * b.d + b.n * a.d
        g == Gcd(IF n < 0 THEN -n ELSE n, a.d * b.d)
    IN  IF n = 0 THEN Zero ELSE Frac(n \div g, (a.d * b.d) \div g)

\* randomness.py:32: m[k] = 0.5 * (p_norm[k] + q_norm[k])
Mixture(p_norm, q_norm) ==
    Tab(Len(p_norm), LAMBDA i :
        Frac(p_norm[i].n * q_norm[i].d + q_norm[i].n * p_norm[i].d,
             2 * p_norm[i].d * q_norm[i].d))

\* randomness.py:34-39: sum of a[k] * log2(a[k] / m[k]) over the keys with
\* a[k] > 0 and m[k] > 0
kl(a, m) ==
    LET s[i \in 0..Len(a)] ==
            IF i = 0 THEN Zero
            ELSE IF a[i].n > 0 /\ m[i].n > 0
                 THEN FracAdd(s[i - 1], Frac(a[i].n * Log2Ratio(a[i], m[i]), a[i].d))
                 ELSE s[i - 1]
        sum == s[Len(a)]
    IN  sum.n \div sum.d

\* randomness.py:41
JsOfMixture(p_norm, q_norm, m) == (kl(p_norm, m) + kl(q_norm, m)) \div 2

JsOfNorms(p_norm, q_norm) == JsOfMixture(p_norm, q_norm, Mixture(p_norm, q_norm))

\* randomness.py:30-31
JsOverKeys(p, q, keys) ==
    JsOfNorms(_normalize(MapSeq(keys, LAMBDA key : Get(p, key))),
              _normalize(MapSeq(keys, LAMBDA key : Get(q, key))))

\* randomness.py:28-41; the keys are taken in the order p, then q
_js_divergence(p, q) ==
    JsOverKeys(p, q, Dedup(MapSeq(p, LAMBDA e : e.k) \o MapSeq(q, LAMBDA e : e.k)))

StartTimeLt(a, b) == StrLt(a.start_time, b.start_time)

\* randomness.py:44-45
_sorted_by_time(gs) == SortAscBy(gs, StartTimeLt)

\* randomness.py:63-67: the (player, character) picks with both known
PlayerPicks(gs) ==
    FlatMap(gs, LAMBDA g :
        FlatMap(g.opponent.players, LAMBDA p :
            IF Truthy(p.player_id) /\ Truthy(p.character)
            THEN <<[pid |-> p.player_id, ch |-> p.character]>> ELSE <<>>))

\* the characters of one player, in pick order
PicksOf(picks, pid) == MapSeq(SelectSeq(picks, LAMBDA x : x.pid = pid), LAMBDA x : x.ch)

\* randomness.py:68-70
PlayerEntropies(picks) ==
    MapSeq(Dedup(MapSeq(picks, LAMBDA x : x.pid)),
           LAMBDA pid : _entropy(CounterValues(PicksOf(picks, pid))))

\* randomness.py:71
Mean(values) == IF values # <<>> THEN SumSeq(values) \div Len(values) ELSE 0

\* randomness.py:63-71
PlayerEntropy(gs) == Mean(PlayerEntropies(PlayerPicks(gs)))

\* mutant: every score from 35 up is "moderately flexible"
Interpretation_two_buckets(score) ==
    IF score < 35 * Unit THEN "highly predictable" ELSE "moderately flexible"

\* randomness.py:87-95
Interpretation(score) ==
    IF score < 35 * Unit THEN "highly predictable"
    ELSE IF score < 65 * Unit THEN "moderately flexible"
    ELSE "chaotic"

\* randomness.py:83-85
Score(draft_entropy, player_entropy, scenario_entropy, drift) ==
    (100 * (35 * draft_entropy + 25 * player_entropy + 25 * scenario_entropy + 15 * drift))
        \div 100

\* randomness.py:87-95
Advice(interpretation) ==
    CASE interpretation = "highly predictable" ->
             "target-ban top comfort picks and prep 1-2 compositions"
      [] interpretation = "moderately flexible" ->
             "ban 1-2 priority picks and prepare adaptive drafts"
      [] OTHER -> "prep principles and flexible answers; prioritize comfort denial"

\* randomness.py:97-105
RandomnessDict(draft_entropy, player_entropy, scenario_entropy, drift, score) ==
    [draft_entropy |-> draft_entropy,
     player_entropy |-> player_entropy,
     scenario_entropy |-> scenario_entropy,
     drift |-> drift,
     score |-> score,
     interpretation |-> Interpretation(score),
     advice |-> Advice(Interpretation(score))]

\* randomness.py:83-105
Scored(draft_entropy, player_entropy, scenario_entropy, drift) ==
    RandomnessDict(draft_entropy, player_entropy, scenario_entropy, drift,
                   Score(draft_entropy, player_entropy, scenario_entropy, drift))

\* randomness.py:78-81
Drift(ordered, split) ==
    _js_divergence(_distribution_from_games(SubSeq(ordered, 1, split)),
                   _distribution_from_games(SubSeq(ordered, split + 1, Len(ordered))))

\* randomness.py:48-105; `scenarios` are the cards cluster_scenarios returned
compute_randomness(gs, scenarios) ==
    IF gs = <<>>
    THEN [draft_entropy |-> 0, player_entropy |-> 0, scenario_entropy |-> 0, drift |-> 0,
          score |-> 0, interpretation |-> "no data", advice |-> "collect more games"]
    ELSE Scored(_entropy(CounterValues(OpponentPicks(gs))),
                PlayerEntropy(gs),
                _entropy(MapSeq(scenarios, LAMBDA card : card.share)),
                Drift(_sorted_by_time(gs), Max(1, (Len(gs) * 75) \div 100)))

\* what one clustering run leaves in the log
Run(c) == [seed |-> env.hashSeed, vectors |-> c.vectors, labels |-> c.labels, cards |-> c.cards]

(***************************************************************************)
(* Recency weights (features.py:12-28).  A weight is a fraction; the       *)
(* model's past timestamps lie whole half-lives before the clock.          *)
(***************************************************************************)
\* datetime.now(timezone.utc), as a day number (days since 2025-01-01):
\* 2026-01-30
Today == 394

\* features.py:12-18: datetime.fromisoformat(ts.replace("Z", "+00:00")) on
\* the model's strings; aware: the string carries a UTC offset
_parse_time(ts) ==
    CASE ts = "" -> [parsed |-> FALSE]
      [] ts = "2025-11-01T12:00:00Z" -> [parsed |-> TRUE, aware |-> TRUE, day |-> 304]
      [] ts = "2025-12-01T12:00:00" -> [parsed |-> TRUE, aware |-> FALSE, day |-> 334]
      [] ts = "2025-12-01T12:00:00Z" -> [parsed |-> TRUE, aware |-> TRUE, day |-> 334]
      [] ts = "2999-01-01T00:00:00Z" -> [parsed |-> TRUE, aware |-> TRUE, day |-> 355749]
      [] OTHER -> [parsed |-> FALSE]

\* features.py:25-28; subtracting a naive datetime from the aware clock
\* raises TypeError
WeightOf(dt, half_life_days) ==
    IF ~dt.parsed THEN [value |-> One]
    ELSE IF ~dt.aware THEN [raised |-> "TypeError"]
    ELSE IF Today - dt.day <= 0 THEN [value |-> One]
    ELSE [value |-> Frac(1, 2 ^ ((Today - dt.day) \div half_life_days))]

\* features.py:21-28
_recency_weight(ts) == WeightOf(_parse_time(ts), 30)

\* the results of the _recency_weight call each aggregator makes per game
RecencyWeights(gs) == MapSeq(gs, LAMBDA g : _recency_weight(g.start_time))

Raised(results) == \E i \in DOMAIN results : "raised" \in DOMAIN results[i]

(***************************************************************************)
(* Weighted pick counts: a dict character -> weight as the list of its     *)
(* items in insertion order.                                               *)
(***************************************************************************)
FracSum(values) ==
    LET f[i \in 0..Len(values)] == IF i = 0 THEN Zero ELSE FracAdd(f[i - 1], values[i])
    IN  f[Len(values)]

\* a / b, reduced
FracDiv(a, b) ==
    LET g == Gcd(a.n * b.d, a.d * b.n)
    IN  IF a.n = 0 THEN Zero ELSE Frac((a.n * b.d) \div g, (a.d * b.n) \div g)

\* a * b, reduced
FracMul(a, b) ==
    LET g == Gcd(a.n * b.n, a.d * b.d)
    IN  IF a.n * b.n = 0 THEN Zero ELSE Frac((a.n * b.n) \div g, (a.d * b.d) \div g)

\* counts[key] += w for every pick [k |-> key, w |-> w] of `picks`, in order
WeightedCounts(picks) ==
    MapSeq(Dedup(MapSeq(picks, LAMBDA e : e.k)),
           LAMBDA key : [k |-> key,
                         v |-> FracSum(MapSeq(SelectSeq(picks, LAMBDA e : e.k = key),
                                              LAMBDA e : e.w))])

WeightLt(a, b) == FracLt(a.v, b.v)

\* the rows {"character", "weight", "share"} of the items, share = w / total
ShareRows(items, total) ==
    MapSeq(items, LAMBDA e :
        [character |-> e.k, weight |-> e.v,
         share |-> IF total.n # 0 THEN FracDiv(e.v, total) ELSE Zero])

\* features.py:51-56: the length of the shortest prefix whose accumulated
\* weight reaches half of the total (the loop ends with the list at the latest)
ComfortLen(items, total) ==
    LET acc[i \in 0..Len(items)] == IF i = 0 THEN Zero ELSE FracAdd(acc[i - 1], items[i].v)
        reach == {i \in DOMAIN items : FracLe(Frac(1, 2), FracDiv(acc[i], total))}
    IN  IF reach = {} THEN Len(items) ELSE CHOOSE i \in reach : \A j \in reach : i <= j

ComfortPrefix(items, total) == ShareRows(SubSeq(items, 1, ComfortLen(items, total)), total)

ComfortOfTotal(counts, total) ==
    IF FracLe(total, Zero) THEN <<>>
    ELSE ComfortPrefix(SortDescBy(counts, WeightLt), total)

\* mutant: the loop stops once the accumulated share exceeds one half
_top_comfort_picks_strict(weighted_counts) ==
    LET total == FracSum(MapSeq(weighted_counts, LAMBDA e : e.v))
        items == SortDescBy(weighted_counts, WeightLt)
        acc[i \in 0..Len(items)] == IF i = 0 THEN Zero ELSE FracAdd(acc[i - 1], items[i].v)
        reach == {i \in DOMAIN items : FracLt(Frac(1, 2), FracDiv(acc[i], total))}
    IN  IF FracLe(total, Zero) THEN <<>>
        ELSE ShareRows(SubSeq(items, 1, IF reach = {} THEN Len(items)
                                        ELSE CHOOSE i \in reach : \A j \in reach : i <= j),
                       total)

\* features.py:45-57
_top_comfort_picks(weighted_counts) ==
    ComfortOfTotal(weighted_counts, FracSum(MapSeq(weighted_counts, LAMBDA e : e.v)))

\* features.py:492-496
PickRates(counts) ==
    ShareRows(SortDescBy(counts, WeightLt), FracSum(MapSeq(counts, LAMBDA e : e.v)))

(***************************************************************************)
(* Per-player and team tendencies (features.py:469-575).  `ws` are the     *)
(* recency weights of the games, one per game.                             *)
(***************************************************************************)
\* the players of one side, each with its game's weight, in loop order
SideEntries(gs, ws, side) ==
    FlatMap(Tab(Len(gs), LAMBDA i : i), LAMBDA i :
        MapSeq(SideState(gs[i], side).players, LAMBDA p : [p |-> p, w |-> ws[i]]))

\* the picks [k |-> character, w |-> weight] of the entries with a character
CharacterPicks(entries) ==
    MapSeq(SelectSeq(entries, LAMBDA e : Truthy(e.p.character)),
           LAMBDA e : [k |-> e.p.character, w |-> e.w])

\* features.py:497-500
RoleOf(roles) == IF roles # <<>> THEN MostCommon(roles) ELSE None

\* features.py:486-508
PlayerRecord(pid, name, role, counts) ==
    [player_id |-> pid,
     name |-> name,
     role |-> role,
     comfort_picks |-> _top_comfort_picks(counts),
     pick_distribution |-> PickRates(counts),
     volatility |-> _entropy(MapSeq(counts, LAMBDA e : e.v))]

\* `own` are the entries of player pid
PlayerOf(pid, own) ==
    PlayerRecord(pid,
                 own[Len(own)].p.name,
                 RoleOf(MapSeq(SelectSeq(own, LAMBDA e : Truthy(e.p.role)), LAMBDA e : e.p.role)),
                 WeightedCounts(CharacterPicks(own)))

\* features.py:485: the players that have a pick, in the order of their
\* first picks
PlayersWithPicks(entries) ==
    Dedup(MapSeq(SelectSeq(entries, LAMBDA e : Truthy(e.p.character)),
                 LAMBDA e : e.p.player_id))

\* features.py:485-508: one item per player that has a pick
PerPlayerOf(entries) ==
    MapSeq(PlayersWithPicks(entries), LAMBDA pid :
        [k |-> pid, v |-> PlayerOf(pid, SelectSeq(entries, LAMBDA e : e.p.player_id = pid))])

\* features.py:469-516
compute_per_player_tendencies(gs, ws) ==
    [per_player |->
         PerPlayerOf(SelectSeq(SideEntries(gs, ws, "opponent"),
                               LAMBDA e : Truthy(e.p.player_id))),
     games_with_player_chars |->
         Count(gs, LAMBDA g : \E i \in DOMAIN g.opponent.players :
                   /\ Truthy(g.opponent.players[i].player_id)
                   /\ Truthy(g.opponent.players[i].character)),
     games_total |-> Len(gs)]

\* features.py:520-528, 535: the characters picked in two or more roles
FlexPicks(entries) ==
    SelectSeq(Dedup(MapSeq(entries, LAMBDA e : e.p.character)), LAMBDA ch :
        Cardinality({entries[i].p.role :
                        i \in {j \in DOMAIN entries : entries[j].p.character = ch}}) >= 2)

Take(seq, n) == SubSeq(seq, 1, Min(n, Len(seq)))

\* features.py:519-542
DraftOf(entries) ==
    [priority_picks |-> Take(PickRates(WeightedCounts(CharacterPicks(entries))), 10),
     bans |-> <<>>,
     flex_picks |-> FlexPicks(SelectSeq(entries, LAMBDA e :
                                  Truthy(e.p.character) /\ Truthy(e.p.role))),
     missing_bans |-> TRUE]

compute_team_draft_tendencies(gs, ws) == DraftOf(SideEntries(gs, ws, "opponent"))

\* mutant: an empty list counts as one game
compute_match_outcomes_or_one(gs) ==
    [games |-> Max(1, Len(gs)),
     wins |-> Count(gs, LAMBDA g : g.opponent.won = "True"),
     losses |-> Count(gs, LAMBDA g : g.opponent.won = "False"),
     avg_kills |-> Frac(SumSeq(MapSeq(gs, LAMBDA g : g.opponent.kills)), Max(1, Len(gs))),
     avg_deaths |-> Frac(SumSeq(MapSeq(gs, LAMBDA g : g.opponent.deaths)), Max(1, Len(gs)))]

\* features.py:545-557
compute_match_outcomes(gs) ==
    [games |-> Len(gs),
     wins |-> Count(gs, LAMBDA g : g.opponent.won = "True"),
     losses |-> Count(gs, LAMBDA g : g.opponent.won = "False"),
     avg_kills |-> IF Len(gs) # 0
                   THEN Frac(SumSeq(MapSeq(gs, LAMBDA g : g.opponent.kills)), Len(gs))
                   ELSE Zero,
     avg_deaths |-> IF Len(gs) # 0
                    THEN Frac(SumSeq(MapSeq(gs, LAMBDA g : g.opponent.deaths)), Len(gs))
                    ELSE Zero]

\* features.py:560-575
compute_data_coverage(gs) ==
    [games_total |-> Len(gs),
     games_with_player_chars |->
         Count(gs, LAMBDA g : \E i \in DOMAIN g.opponent.players :
                   Truthy(g.opponent.players[i].character)),
     games_with_roles |->
         Count(gs, LAMBDA g : \E i \in DOMAIN g.opponent.players :
                   Truthy(g.opponent.players[i].role)),
     has_objectives |-> FALSE]

(***************************************************************************)
(* Counter suggestions (matchups.py:52-122).                               *)
(***************************************************************************)
\* matchups.py:52-59: player id -> character -> weight, for the team's side
PoolsOf(entries) ==
    MapSeq(Dedup(MapSeq(entries, LAMBDA e : e.p.player_id)), LAMBDA pid :
        [k |-> pid,
         v |-> WeightedCounts(CharacterPicks(
                   SelectSeq(entries, LAMBDA e : e.p.player_id = pid)))])

compute_our_pick_pools(gs, ws) ==
    PoolsOf(SelectSeq(SideEntries(gs, ws, "team"),
                      LAMBDA e : Truthy(e.p.player_id) /\ Truthy(e.p.character)))

\* matchups.py:62-67
_flatten_pick_rates(pools) ==
    WeightedCounts(FlatMap(pools, LAMBDA pool :
                       MapSeq(pool.v, LAMBDA e : [k |-> e.k, w |-> e.v])))

\* matchups.py:98-110
Candidate(st, our_champ, their_champ, weight) ==
    [our_champ |-> our_champ,
     their_champ |-> their_champ,
     expected_winrate |-> posterior_winrate(st, 2, 2),
     samples |-> st.games,
     confidence |-> confidence(st),
     score |-> FracMul(FracMul(posterior_winrate(st, 2, 2), confidence(st)), weight)]

CandidateScoreLt(a, b) == FracLt(a.score, b.score)

\* mutant: the candidates are cut to top_k without being sorted
TopCandidates_unsorted(matchup_table, global_pool, role, their_champ, top_k) ==
    Take(FlatMap(global_pool, LAMBDA e :
             IF <<role, e.k, their_champ>> \in DOMAIN matchup_table
             THEN <<Candidate(matchup_table[<<role, e.k, their_champ>>],
                              e.k, their_champ, e.v)>>
             ELSE <<>>),
         top_k)

\* matchups.py:92-113: the top_k candidates against one comfort pick
TopCandidates(matchup_table, global_pool, role, their_champ, top_k) ==
    Take(SortDescBy(FlatMap(global_pool, LAMBDA e :
                        IF <<role, e.k, their_champ>> \in DOMAIN matchup_table
                        THEN <<Candidate(matchup_table[<<role, e.k, their_champ>>],
                                         e.k, their_champ, e.v)>>
                        ELSE <<>>),
                    CandidateScoreLt),
         top_k)

\* matchups.py:84-114: what the loops append, as (role, candidate) pairs
Appended(matchup_table, opponent_players, global_pool, top_k) ==
    FlatMap(opponent_players, LAMBDA opp :
        IF ~Truthy(opp.v.role) \/ opp.v.comfort_picks = <<>> THEN <<>>
        ELSE FlatMap(opp.v.comfort_picks, LAMBDA pick :
                 IF ~Truthy(pick.character) THEN <<>>
                 ELSE MapSeq(TopCandidates(matchup_table, global_pool, opp.v.role,
                                           pick.character, top_k),
                             LAMBDA c : [role |-> opp.v.role, c |-> c])))

\* role_counters: role -> the candidates appended for it
ByRole(appended) ==
    MapSeq(Dedup(MapSeq(appended, LAMBDA a : a.role)), LAMBDA role :
        [k |-> role,
         v |-> MapSeq(SelectSeq(appended, LAMBDA a : a.role = role), LAMBDA a : a.c)])

\* matchups.py:70-122
suggest_counters(matchup_table, opponent_players, our_pools, top_k) ==
    [personalization_level |-> IF our_pools # <<>> THEN "high" ELSE "low",
     by_role |-> ByRole(Appended(matchup_table, opponent_players,
                                 _flatten_pick_rates(
                                     IF our_pools # <<>> THEN our_pools
                                     ELSE <<[k |-> "team", v |-> <<>>]>>),
                                 top_k))]

(***************************************************************************)
(* Report assembly (report.py:27-53, 209-304).                             *)
(***************************************************************************)
\* report.py:35-39
ComfortBans(per_player) ==
    FlatMap(per_player, LAMBDA e :
        IF e.v.comfort_picks # <<>> /\ FracLe(Frac(1, 2), e.v.comfort_picks[1].share)
        THEN <<e.v.comfort_picks[1].character>> ELSE <<>>)

\* report.py:32-33
Priority(draft) ==
    MapSeq(SelectSeq(draft.priority_picks, LAMBDA e : Truthy(e.character)),
           LAMBDA e : e.character)

\* mutant: the ban list is cut to 5 without list(dict.fromkeys(...))
PlanOf_no_dedup(priority, comfort_bans, randomness) ==
    [ban_plan |-> Take(SelectSeq(Take(priority, 3) \o comfort_bans, Truthy), 5),
     draft_plan |-> [answers |-> Take(priority, 5),
                     chaotic |-> randomness.interpretation = "chaotic"]]

\* report.py:27-53.  draft_plan is a text; the model keeps what varies in
\* it: the picks it lists and whether the sentence for "chaotic" is added
PlanOf(priority, comfort_bans, randomness) ==
    [ban_plan |-> Take(Dedup(SelectSeq(Take(priority, 3) \o comfort_bans, Truthy)), 5),
     draft_plan |-> [answers |-> Take(priority, 5),
                     chaotic |-> randomness.interpretation = "chaotic"]]

_build_plan_template(per_player, draft, randomness) ==
    PlanOf(Priority(draft), ComfortBans(per_player), randomness)

StableRows(rows) == SelectSeq(rows, LAMBDA c : c.stable)

StableSet(rows) == {rows[i].character : i \in {j \in DOMAIN rows : rows[j].stable}}

\* report.py:237-239
StableOverlap(shared) == [shared_champions |-> shared, count |-> Cardinality(shared)]

\* report.py:226-239, 256-283: the sub-sections built from the champion
\* win rates and the roster stability
Insights(gs) ==
    [stable_champions |->
         [opponent |-> StableRows(compute_champion_winrates(gs, "opponent", 3)),
          team |-> StableRows(compute_champion_winrates(gs, "team", 3))],
     roster_stability |->
         [opponent |-> compute_roster_stability(gs, "opponent"),
          team |-> compute_roster_stability(gs, "team")],
     stable_overlap |->
         StableOverlap(StableSet(compute_champion_winrates(gs, "opponent", 3))
                          \cap StableSet(compute_champion_winrates(gs, "team", 3)))]

\* report.py:285-298: the parts that do not depend on the games
Visualization ==
    [scenario_fingerprint_axes |->
         <<"early_aggression", "draft_volatility", "teamfightiness", "macro">>,
     objective_timeline |->
         [first_dragon |-> <<>>, first_herald |-> <<>>, first_tower |-> <<>>,
          kills_by_minute |-> <<>>, missing |-> TRUE]]

\* asdict(meta) of the FetchMeta the caller passes
Meta ==
    [team_name |-> "A", opponent_name |-> "B", team_id |-> "teamA",
     opponent_id |-> "teamB", title |-> "lol", window_gte |-> "", window_lte |-> "",
     series_found |-> 0, series_analyzed |-> 0]

\* report.py:245-303
Report(gs, meta, per_player, draft, coverage, scenarios, randomness, counters) ==
    [meta |-> meta,
     data_coverage |-> coverage,
     opponent_overview |-> compute_match_outcomes(gs),
     per_player |-> per_player,
     draft_tendencies |-> draft,
     scenarios |-> scenarios,
     counters |-> counters,
     randomness |-> randomness,
     plan |-> _build_plan_template(per_player, draft, randomness),
     insights |-> Insights(gs),
     visualization |-> Visualization,
     missing_data |-> [bans |-> draft.missing_bans, objectives |-> ~coverage.has_objectives]]

\* report.py:214-223 with our_pools = None; ws: the recency weights;
\* scenarios: the cards of the first clustering run; randomness: the result
\* of compute_randomness, which clusters again
ReportWith(gs, meta, ws, per_player, scenarios, randomness) ==
    Report(gs, meta, per_player,
           compute_team_draft_tendencies(gs, ws),
           compute_data_coverage(gs),
           scenarios, randomness,
           suggest_counters(build_matchup_table(gs), per_player,
                            compute_our_pick_pools(gs, ws), 3))

\* report.py:209-304.  compute_per_player_tendencies is the first to call
\* _recency_weight (features.py:476); its TypeError is caught nowhere.
ReportOrRaise(gs, meta, weights, scenarios, randomness) ==
    IF Raised(weights) THEN [raised |-> "TypeError"]
    ELSE [value |->
             ReportWith(gs, meta, MapSeq(weights, LAMBDA w : w.value),
                        compute_per_player_tendencies(
                            gs, MapSeq(weights, LAMBDA w : w.value)).per_player,
                        scenarios, randomness)]

\* first: the first clustering run; second: the run inside compute_randomness
build_report(gs, meta, first, second) ==
    ReportOrRaise(gs, meta, RecencyWeights(gs), first.cards,
                  compute_randomness(gs, second.cards))

(***************************************************************************)
(* Specification SpecStats: a MatchupStats object with                     *)
(* 0 <= wins <= games, as build_matchup_table leaves it, queried.          *)
(***************************************************************************)
InitStats ==
    /\ stats \in {MatchupStats(g, w) : g \in 0..MaxStatGames, w \in 0..MaxStatGames}
    /\ stats.wins <= stats.games
    /\ games = <<>>
    /\ env = [hashSeed |-> 0]
    /\ call = NoCall
    /\ ret = NoRet
    /\ runs = <<>>

PosteriorWinrate ==
    /\ call.fn = "none"
    /\ call' = [fn |-> "posterior_winrate", alpha |-> 2, beta |-> 2]
    /\ ret' = [value |-> posterior_winrate(stats, 2, 2)]
    /\ UNCHANGED <<games, stats, env, runs>>

Confidence ==
    /\ call.fn = "none"
    /\ call' = [fn |-> "confidence"]
    /\ ret' = [value |-> confidence(stats)]
    /\ UNCHANGED <<games, stats, env, runs>>

NextStats == PosteriorWinrate \/ Confidence

SpecStats == InitStats /\ [][NextStats]_vars

\* C6: with alpha = beta = 2 the posterior win rate is (wins+2)/(games+4),
\* strictly between 0 and 1, and 1/2 for zero games; the confidence is
\* min(1, games/20), and 0 for zero games.
C6_PosteriorAndConfidence ==
    /\ Returned("posterior_winrate") =>
          /\ FracEq(ret.value, Frac(stats.wins + 2, stats.games + 4))
          /\ FracLt(Zero, ret.value)
          /\ FracLt(ret.value, One)
          /\ (stats.games = 0 => FracEq(ret.value, Frac(1, 2)))
    /\ Returned("confidence") =>
          /\ IF stats.games >= 20
             THEN FracEq(ret.value, One)
             ELSE FracEq(ret.value, Frac(stats.games, 20))
          /\ (stats.games = 0 => FracEq(ret.value, Zero))

\* C6 witness: a table entry with every game won and the confidence capped
C6_Witness ==
    /\ Returned("posterior_winrate")
    /\ stats.games = MaxStatGames
    /\ stats.wins = stats.games

(***************************************************************************)
(* Specification SpecAggregators: the per-side aggregators applied to a    *)
(* game list.  Each game's opponent side is drawn from AggSides; the team  *)
(* side is its mirror image (outcome flipped, picks exchanged), so both    *)
(* sides range over the same states.                                       *)
(***************************************************************************)
AggRosters ==
    { <<PlayerPerf("p1", "top", "Gnar")>>,
      <<PlayerPerf("p1", "top", "Ornn")>>,
      <<PlayerPerf("p1", "top", "Gnar"), PlayerPerf("p2", "mid", "Ornn")>>,
      <<PlayerPerf("p1", "top", "Gnar"), PlayerPerf("p2", "mid", "Gnar")>>,
      <<PlayerPerf("", None, None)>> }

FlipWon(w) == IF w = "True" THEN "False" ELSE IF w = "False" THEN "True" ELSE None
SwapPick(ch) == IF ch = "Gnar" THEN "Ornn" ELSE IF ch = "Ornn" THEN "Gnar" ELSE ch
MirrorRoster(r) == [i \in DOMAIN r |-> [r[i] EXCEPT !.character = SwapPick(@)]]

AggGames ==
    { GameRecord("2025-12-01T12:00:00Z",
                 TeamGameState("teamA", FlipWon(w), 10, 5, MirrorRoster(r)),
                 TeamGameState("teamB", w, 5, 10, r)) : w \in WonValues, r \in AggRosters }

InitAggregators ==
    /\ games \in SeqsUpTo(AggGames, MaxGames)
    /\ stats = MatchupStats(0, 0)
    /\ env = [hashSeed |-> 0]
    /\ call = NoCall
    /\ ret = NoRet
    /\ runs = <<>>

ComputeChampionWinrates ==
    /\ call.fn = "none"
    /\ \E side \in Sides, min_games \in {1, 3} :
          /\ call' = [fn |-> "compute_champion_winrates", side |-> side,
                      min_games |-> min_games]
          /\ ret' = [value |-> compute_champion_winrates(games, side, min_games)]
    /\ UNCHANGED <<games, stats, env, runs>>

ComputeRosterStability ==
    /\ call.fn = "none"
    /\ \E side \in Sides :
          /\ call' = [fn |-> "compute_roster_stability", side |-> side]
          /\ ret' = [value |-> compute_roster_stability(games, side)]
    /\ UNCHANGED <<games, stats, env, runs>>

NextAggregators == ComputeChampionWinrates \/ ComputeRosterStability

SpecAggregators == InitAggregators /\ [][NextAggregators]_vars

\* C3: every row of compute_champion_winrates has 0 <= wins <= games,
\* games >= 1, winrate = wins/games within [0,1], and wins = games exactly
\* when winrate = 1.
C3_WinrateRowsWellFormed ==
    Returned("compute_champion_winrates") =>
        \A i \in DOMAIN ret.value :
            LET r == ret.value[i]
            IN  /\ 0 <= r.wins /\ r.wins <= r.games
                /\ r.games >= 1
                /\ FracEq(r.winrate, Frac(r.wins, r.games))
                /\ FracLe(Zero, r.winrate) /\ FracLe(r.winrate, One)
                /\ (r.wins = r.games <=> FracEq(r.winrate, One))

\* C3 witness: a returned row with a loss and a win behind it
C3_Witness ==
    /\ Returned("compute_champion_winrates")
    /\ \E i \in DOMAIN ret.value :
          ret.value[i].wins >= 1 /\ ret.value[i].wins < ret.value[i].games

\* The (game, player) slots of the called side holding character ch; with
\* decided = TRUE only those of games whose outcome on that side is known.
PickSlots(side, ch, decided) ==
    {s \in {<<i, j>> : i \in DOMAIN games, j \in 1..2} :
        /\ s[2] \in DOMAIN SideState(games[s[1]], side).players
        /\ SideState(games[s[1]], side).players[s[2]].character = ch
        /\ (decided => SideState(games[s[1]], side).won # None)}

WonSlots(side, ch) ==
    {s \in PickSlots(side, ch, TRUE) : SideState(games[s[1]], side).won = "True"}

WinrateRowsMatch(decided) ==
    Returned("compute_champion_winrates") =>
        /\ \A i \in DOMAIN ret.value :
              PickSlots(call.side, ret.value[i].character, decided) # {}
        /\ \A ch \in {"Gnar", "Ornn"} :
              PickSlots(call.side, ch, decided) # {} =>
                 /\ Cardinality({i \in DOMAIN ret.value : ret.value[i].character = ch}) = 1
                 /\ \A i \in DOMAIN ret.value :
                       ret.value[i].character = ch =>
                          /\ ret.value[i].games = Cardinality(PickSlots(call.side, ch, decided))
                          /\ ret.value[i].wins = Cardinality(WonSlots(call.side, ch))
                          /\ (ret.value[i].stable <=> ret.value[i].games >= call.min_games)

\* C4 (as claimed): one row per character picked on the side in any game,
\* games = the number of its picks over all games whatever the outcome.
C4_RowsCountEveryGame == WinrateRowsMatch(FALSE)

\* C4 (amended): one row per character picked on the side in a game whose
\* outcome on that side is known (won is True or False); games = the number
\* of its picks in those games, wins = those in games the side won, and
\* stable iff games >= min_games.
C4_RowsCountDecidedGames == WinrateRowsMatch(TRUE)

\* C4 witness: three decided games with opponent top picks Gnar, Ornn, Gnar
\* at min_games = 3: two rows, Gnar games = 2, Ornn games = 1, none stable
C4_Witness ==
    /\ Returned("compute_champion_winrates")
    /\ call.side = "opponent" /\ call.min_games = 3
    /\ Len(games) = 3
    /\ \A i \in 1..3 : games[i].opponent.won # None /\ Len(games[i].opponent.players) = 1
    /\ games[1].opponent.players[1].character = "Gnar"
    /\ games[2].opponent.players[1].character = "Ornn"
    /\ games[3].opponent.players[1].character = "Gnar"
    /\ Len(ret.value) = 2
    /\ ret.value[1].character = "Gnar" /\ ret.value[1].games = 2
    /\ ret.value[2].character = "Ornn" /\ ret.value[2].games = 1
    /\ ~ret.value[1].stable /\ ~ret.value[2].stable

\* C5: top5_share lies in [0,1], is 0 for an empty list, and is 1 when the
\* side has at most 5 distinct player ids and every game fields all of them.
C5_Top5ShareIsAShare ==
    Returned("compute_roster_stability") =>
        LET ids == UNION {SeenIds(games[i], call.side) : i \in DOMAIN games}
        IN  /\ FracLe(Zero, ret.value.top5_share)
            /\ FracLe(ret.value.top5_share, One)
            /\ (games = <<>> => FracEq(ret.value.top5_share, Zero))
            /\ (/\ games # <<>>
                /\ ids # {}
                /\ Cardinality(ids) <= 5
                /\ \A i \in DOMAIN games : SeenIds(games[i], call.side) = ids)
               => FracEq(ret.value.top5_share, One)

(***************************************************************************)
(* Specification SpecMatchup: build_matchup_table over game lists whose    *)
(* two rosters vary independently.                                         *)
(***************************************************************************)
MaxMatchupGames == 2

MatchupRosters ==
    { <<PlayerPerf("p1", "top", "Gnar")>>,
      \* the first top player has no character
      <<PlayerPerf("p1", "top", None), PlayerPerf("p2", "top", "Ornn")>>,
      \* two players listed as top, and a mid
      <<PlayerPerf("p1", "top", "Gnar"), PlayerPerf("p2", "top", "Ornn"),
        PlayerPerf("p3", "mid", "Ornn")>>,
      \* a player without a role, and a mid
      <<PlayerPerf("p1", None, "Ornn"), PlayerPerf("p2", "mid", "Gnar")>> }

MatchupGames ==
    { GameRecord("2025-12-01T12:00:00Z",
                 TeamGameState("teamA", w, 10, 5, rt),
                 TeamGameState("teamB", FlipWon(w), 5, 10, ro)) :
        w \in WonValues, rt \in MatchupRosters, ro \in MatchupRosters }

InitMatchup ==
    /\ games \in SeqsUpTo(MatchupGames, MaxMatchupGames)
    /\ stats = MatchupStats(0, 0)
    /\ env = [hashSeed |-> 0]
    /\ call = NoCall
    /\ ret = NoRet
    /\ runs = <<>>

BuildMatchupTable ==
    /\ call.fn = "none"
    /\ call' = [fn |-> "build_matchup_table"]
    /\ ret' = [value |-> build_matchup_table(games)]
    /\ UNCHANGED <<games, stats, env, runs>>

NextMatchup == BuildMatchupTable

SpecMatchup == InitMatchup /\ [][NextMatchup]_vars

\* the character of the first player listed with `role` and a character
FirstPick(players, role) ==
    LET idx == {i \in DOMAIN players :
                   players[i].role = role /\ Truthy(players[i].character)}
    IN  IF idx = {} THEN None
        ELSE players[CHOOSE i \in idx : \A j \in idx : i <= j].character

\* the games in which the two first picks of `key`'s role are key's picks
GamesOfKey(key) ==
    {i \in DOMAIN games :
        /\ FirstPick(games[i].team.players, key[1]) = key[2]
        /\ FirstPick(games[i].opponent.players, key[1]) = key[3]}

\* C7: for every key (role, ours, theirs) the entry's games is the number
\* of games whose first picks of that role are (ours, theirs) and wins is
\* the number of those the team won; wins <= games, and a game adds at most
\* 1 to the entries of a role.
C7_MatchupTableCounts ==
    Returned("build_matchup_table") =>
        /\ \A key \in {"top", "mid"} \X {"Gnar", "Ornn"} \X {"Gnar", "Ornn"} :
              IF key \in DOMAIN ret.value
              THEN /\ ret.value[key].games = Cardinality(GamesOfKey(key))
                   /\ ret.value[key].wins =
                         Cardinality({i \in GamesOfKey(key) : games[i].team.won = "True"})
                   /\ ret.value[key].wins <= ret.value[key].games
                   /\ ret.value[key].games >= 1
              ELSE GamesOfKey(key) = {}
        /\ DOMAIN ret.value \subseteq {"top", "mid"} \X {"Gnar", "Ornn"} \X {"Gnar", "Ornn"}
        /\ \A role \in {"top", "mid"} :
              LET keys == {k \in DOMAIN ret.value : k[1] = role}
                  RECURSIVE Total(_)
                  Total(ks) == IF ks = {} THEN 0
                               ELSE LET k == CHOOSE x \in ks : TRUE
                                    IN  ret.value[k].games + Total(ks \ {k})
              IN  Total(keys) <= Len(games)

\* C7 witness: the team wins two games with top Gnar against top Ornn, the
\* opponent listing a character-less top first: (top, Gnar, Ornn) = 2 of 2
C7_Witness ==
    /\ Returned("build_matchup_table")
    /\ Len(games) = 2
    /\ \A i \in 1..2 :
          /\ games[i].team.won = "True"
          /\ games[i].opponent.players[1].character = None
    /\ <<"top", "Gnar", "Ornn">> \in DOMAIN ret.value
    /\ ret.value[<<"top", "Gnar", "Ornn">>] = MatchupStats(2, 2)

(***************************************************************************)
(* Specification SpecRandomness: compute_randomness over a game list, in   *)
(* a process with either hash salt.                                        *)
(***************************************************************************)
MaxRandGames == 3

\* a full roster with two missing player ids; a roster with three missing
\* picks; a roster with nothing known
RandGames ==
    { GameRecord("2025-11-01T12:00:00Z",
                 TeamGameState("teamA", "False", 5, 10, <<>>),
                 TeamGameState("teamB", "True", 10, 5,
                               <<PlayerPerf("p1", "top", "Gnar"), PlayerPerf("p2", "jungle", "Vi"),
                                 PlayerPerf("", "mid", "Ahri"), PlayerPerf("", "bot", "Jinx"),
                                 PlayerPerf("p5", "support", "Lulu")>>)),
      GameRecord("2025-12-01T12:00:00Z",
                 TeamGameState("teamA", "True", 10, 5, <<>>),
                 TeamGameState("teamB", "False", 5, 10,
                               <<PlayerPerf("p1", "top", "Ornn"), PlayerPerf("p2", "jungle", "Sejuani"),
                                 PlayerPerf("p3", "mid", None), PlayerPerf("p4", "bot", None),
                                 PlayerPerf("p5", None, None)>>)),
      GameRecord("",
                 TeamGameState("teamA", None, 0, 0, <<>>),
                 TeamGameState("teamB", None, 0, 0, <<PlayerPerf("", None, None)>>)) }

InitRandomness ==
    /\ games \in SeqsUpTo(RandGames, MaxRandGames)
    /\ stats = MatchupStats(0, 0)
    /\ env \in [hashSeed : HashSeeds]
    /\ call = NoCall
    /\ ret = NoRet
    /\ runs = <<>>

ComputeRandomness ==
    /\ call.fn = "none"
    /\ \E sample \in ClusterSamples(games) :
          LET c == cluster_scenarios_with_labels(games, sample)
          IN  /\ ret' = [value |-> compute_randomness(games, c.cards)]
              /\ runs' = Append(runs, Run(c))
    /\ call' = [fn |-> "compute_randomness"]
    /\ UNCHANGED <<games, stats, env>>

NextRandomness == ComputeRandomness

SpecRandomness == InitRandomness /\ [][NextRandomness]_vars

\* C8: the four sub-scores lie in [0,1], the score is
\* 100*(0.35*draft + 0.25*player + 0.25*scenario + 0.15*drift) and lies in
\* [0,100]; for the empty list all five are 0.
C8_RandomnessRanges ==
    Returned("compute_randomness") =>
        LET r == ret.value
        IN  /\ \A x \in {r.draft_entropy, r.player_entropy, r.scenario_entropy, r.drift} :
                  0 <= x /\ x <= Unit
            /\ r.score = 35 * r.draft_entropy + 25 * r.player_entropy
                            + 25 * r.scenario_entropy + 15 * r.drift
            /\ 0 <= r.score /\ r.score <= 100 * Unit
            /\ (games = <<>> =>
                   /\ r.draft_entropy = 0 /\ r.player_entropy = 0
                   /\ r.scenario_entropy = 0 /\ r.drift = 0 /\ r.score = 0)

\* C9: the interpretation is "no data" iff the list is empty; otherwise it
\* is "highly predictable" iff score < 35, "moderately flexible" iff
\* 35 <= score < 65 and "chaotic" iff score >= 65.
C9_InterpretationBuckets ==
    Returned("compute_randomness") =>
        LET r == ret.value
        IN  /\ (r.interpretation = "no data" <=> games = <<>>)
            /\ games # <<>> =>
                  /\ (r.interpretation = "highly predictable" <=> r.score < 35 * Unit)
                  /\ (r.interpretation = "moderately flexible" <=>
                         (35 * Unit <= r.score /\ r.score < 65 * Unit))
                  /\ (r.interpretation = "chaotic" <=> r.score >= 65 * Unit)
            /\ r.interpretation \in
                  {"no data", "highly predictable", "moderately flexible", "chaotic"}

\* C9 witness: a non-empty list whose score is exactly 35, the boundary,
\* labelled "moderately flexible"
C9_Witness ==
    /\ Returned("compute_randomness")
    /\ games # <<>>
    /\ ret.value.score = 35 * Unit
    /\ ret.value.interpretation = "moderately flexible"

(***************************************************************************)
(* Specification SpecReport: build_report over a game list.                *)
(***************************************************************************)
MaxReportGames == 2

\* a decided game; the same game with a timestamp without offset; a game in
\* the future with a player without id; a game with nothing known; a game
\* with an unparseable timestamp, a pick without role and a role without pick
ReportGames ==
    { GameRecord("2025-11-01T12:00:00Z",
                 TeamGameState("teamA", "True", 10, 5, <<PlayerPerf("t1", "top", "Gnar")>>),
                 TeamGameState("teamB", "False", 5, 10, <<PlayerPerf("p1", "top", "Ornn")>>)),
      GameRecord("2025-12-01T12:00:00",
                 TeamGameState("teamA", "True", 10, 5, <<PlayerPerf("t1", "top", "Gnar")>>),
                 TeamGameState("teamB", "False", 5, 10, <<PlayerPerf("p1", "top", "Ornn")>>)),
      GameRecord("2999-01-01T00:00:00Z",
                 TeamGameState("teamA", "False", 5, 10, <<PlayerPerf("t1", "top", "Ornn")>>),
                 TeamGameState("teamB", "True", 10, 5,
                               <<PlayerPerf("p1", "top", "Gnar"), PlayerPerf("", "mid", "Ornn")>>)),
      GameRecord("",
                 TeamGameState("teamA", None, 0, 0, <<>>),
                 TeamGameState("teamB", None, 0, 0, <<PlayerPerf("", None, None)>>)),
      GameRecord("not-a-time",
                 TeamGameState("teamA", "True", 10, 5, <<PlayerPerf("t1", None, "Gnar")>>),
                 TeamGameState("teamB", "False", 5, 10,
                               <<PlayerPerf("p1", None, "Gnar"), PlayerPerf("p2", "mid", None)>>)) }

InitReport ==
    /\ games \in SeqsUpTo(ReportGames, MaxReportGames)
    /\ stats = MatchupStats(0, 0)
    /\ env \in [hashSeed : HashSeeds]
    /\ call = NoCall
    /\ ret = NoRet
    /\ runs = <<>>

RunsOf(result, first, second) ==
    IF "raised" \in DOMAIN result THEN runs ELSE runs \o <<Run(first), Run(second)>>

BuildReportWith(first, second) ==
    /\ ret' = build_report(games, Meta, first, second)
    /\ runs' = RunsOf(build_report(games, Meta, first, second), first, second)

BuildReport ==
    /\ call.fn = "none"
    /\ \E s1 \in ClusterSamples(games), s2 \in ClusterSamples(games) :
          BuildReportWith(cluster_scenarios_with_labels(games, s1),
                          cluster_scenarios_with_labels(games, s2))
    /\ call' = [fn |-> "build_report"]
    /\ UNCHANGED <<games, stats, env>>

NextReport == BuildReport

SpecReport == InitReport /\ [][NextReport]_vars

ReportKeys ==
    {"meta", "data_coverage", "opponent_overview", "per_player", "draft_tendencies",
     "scenarios", "counters", "randomness", "plan", "insights", "visualization",
     "missing_data"}

\* C1: build_report on the empty game list returns without raising, and
\* the report has opponent_overview.games = 0, randomness.score = 0,
\* scenarios = [] and counters.by_role = {}.
C1_EmptyListReport ==
    (call.fn = "build_report" /\ games = <<>>) =>
        /\ "value" \in DOMAIN ret
        /\ ret.value.opponent_overview.games = 0
        /\ ret.value.randomness.score = 0
        /\ ret.value.scenarios = <<>>
        /\ ret.value.counters.by_role = <<>>

\* C1 witness: a report was built from the empty list
C1_Witness ==
    /\ Returned("build_report")
    /\ games = <<>>
    /\ DOMAIN ret.value = ReportKeys

\* C2: for every game list build_report never raises and returns a mapping
\* with all twelve top-level keys.
C2_BuildReportNeverRaises ==
    call.fn = "build_report" =>
        /\ "value" \in DOMAIN ret
        /\ DOMAIN ret.value = ReportKeys

(***************************************************************************)
(* Specification SpecRuns: repeated clustering of one game list, in one    *)
(* process and across processes.  runs logs what every run produced.       *)
(***************************************************************************)
MaxRuns == 2

InitRuns == InitReport

\* scenarios.py:83-135 without the optional library: random.sample draws
\* the initial centres from the unseeded generator (scenarios.py:48)
ClusterScenariosWithLabels ==
    /\ Len(runs) < MaxRuns
    /\ \E sample \in ClusterSamples(games) :
          /\ ret' = [value |-> cluster_scenarios_with_labels(games, sample)]
          /\ runs' = Append(runs, Run(cluster_scenarios_with_labels(games, sample)))
    /\ call' = [fn |-> "cluster_scenarios_with_labels"]
    /\ UNCHANGED <<games, stats, env>>

\* a new interpreter process: hash() of a string is salted per process
\* (scenarios.py:23-24)
RestartProcess ==
    /\ Len(runs) < MaxRuns
    /\ \E seed \in HashSeeds \ {env.hashSeed} : env' = [hashSeed |-> seed]
    /\ UNCHANGED <<games, stats, call, ret, runs>>

NextRuns == ClusterScenariosWithLabels \/ RestartProcess \/ BuildReport

SpecRuns == InitRuns /\ [][NextRuns]_vars

\* C10: any two clustering runs on the same game list produce the same
\* feature vectors, the same label list and the same ordered card list.
C10_ClusteringDeterministic ==
    \A i \in DOMAIN runs : \A j \in DOMAIN runs :
        /\ runs[i].vectors = runs[j].vectors
        /\ runs[i].labels = runs[j].labels
        /\ runs[i].cards = runs[j].cards

(***************************************************************************)
(* Normalisation of raw series (normalize.py).  A raw JSON scalar is a     *)
(* tagged record; an absent key and an explicit null are both JNull, as    *)
(* dict.get makes them.                                                    *)
(***************************************************************************)
JNull == [kind |-> "null"]
JInt(n) == [kind |-> "int", n |-> n]
JStr(s) == [kind |-> "str", s |-> s]
JObj(name, id) == [kind |-> "dict", name |-> name, id |-> id]

\* truthiness of a raw value
JTruthy(v) ==
    CASE v.kind = "null" -> FALSE
      [] v.kind = "int" -> v.n # 0
      [] v.kind = "str" -> v.s # ""
      [] OTHER -> TRUE

\* int(s) of a string: surrounding blanks are stripped; [raised] stands for
\* ValueError
IntOfStr(s) ==
    CASE s = "1" -> [value |-> 1]
      [] s = "2" -> [value |-> 2]
      [] s = " 3 " -> [value |-> 3]
      [] OTHER -> [raised |-> "ValueError"]

\* normalize.py:49-53
_safe_int(value) ==
    IF ~JTruthy(value) THEN 0
    ELSE IF value.kind = "int" THEN value.n
    ELSE IF value.kind = "str" /\ "value" \in DOMAIN IntOfStr(value.s)
         THEN IntOfStr(value.s).value
    ELSE 0

\* str(x) of an Optional[str]
PyStr(x) == IF x = None THEN "None" ELSE x

\* str(x or "")
StrOrEmpty(x) == IF Truthy(x) THEN PyStr(x) ELSE ""

\* normalize.py:60-62: the value of one of the keys, when truthy
CharacterOfValue(val) ==
    IF val.kind = "dict" THEN (IF Truthy(val.name) THEN val.name ELSE val.id)
    ELSE val.s

\* normalize.py:56-63
_get_character(player) ==
    IF JTruthy(player.character) THEN CharacterOfValue(player.character)
    ELSE IF JTruthy(player.champion) THEN CharacterOfValue(player.champion)
    ELSE IF JTruthy(player.agent) THEN CharacterOfValue(player.agent)
    ELSE None

\* normalize.py:79-84
_get_role(player) ==
    IF Truthy(player.role) THEN PyStr(player.role)
    ELSE IF Truthy(player.lane) THEN PyStr(player.lane)
    ELSE IF Truthy(player.position) THEN PyStr(player.position)
    ELSE None

\* role_map.get(character)
RoleMapGet(role_map, character) ==
    IF SelectSeq(role_map, LAMBDA e : e.k = character) = <<>> THEN None
    ELSE SelectSeq(role_map, LAMBDA e : e.k = character)[1].v

\* normalize.py:91-94
RoleOfPlayer(role, character, role_map) ==
    IF ~Truthy(role) /\ Truthy(character) THEN RoleMapGet(role_map, character)
    ELSE role

\* normalize.py:90-104
NormalizedPlayer(p, role_map) ==
    [player_id |-> StrOrEmpty(p.id),
     name |-> p.name,
     role |-> RoleOfPlayer(_get_role(p), _get_character(p), role_map),
     character |-> _get_character(p),
     kills |-> _safe_int(p.kills),
     deaths |-> _safe_int(p.deaths)]

\* normalize.py:87-105
_normalize_players(players, role_map) ==
    MapSeq(players, LAMBDA p : NormalizedPlayer(p, role_map))

\* normalize.py:108-116 (the score field is not part of the model's
\* TeamGameState)
_team_state_from_entry(entry, role_map) ==
    TeamGameState(StrOrEmpty(entry.id), entry.won, _safe_int(entry.kills),
                  _safe_int(entry.deaths), _normalize_players(entry.players, role_map))

\* next((t for t in teams if str(t.get("id")) == team_id), None), as the
\* list of matching entries: empty for None, else the first is taken
EntriesWithId(teams, team_id) == SelectSeq(teams, LAMBDA t : PyStr(t.id) = team_id)

\* normalize.py:147-157, 168-178
NormalizedGame(record, game_number, team_state, opp_state) ==
    [series_id |-> record.series_id, game_number |-> game_number,
     start_time |-> record.start_time,
     team |-> team_state, opponent |-> opp_state,
     result |-> _result_from_states(team_state, opp_state)]

\* mutant: sides taken by position in the source list
GameOfTeams_by_position(record, game_number, teams, team_id, opponent_id, role_map) ==
    IF Len(teams) < 2 THEN <<>>
    ELSE <<NormalizedGame(record, game_number,
                          _team_state_from_entry(teams[1], role_map),
                          _team_state_from_entry(teams[2], role_map))>>

\* normalize.py:140-157, 161-178: no record when a side is not listed
GameOfTeams(record, game_number, teams, team_id, opponent_id, role_map) ==
    IF EntriesWithId(teams, team_id) = <<>> \/ EntriesWithId(teams, opponent_id) = <<>>
    THEN <<>>
    ELSE <<NormalizedGame(record, game_number,
                          _team_state_from_entry(EntriesWithId(teams, team_id)[1], role_map),
                          _team_state_from_entry(EntriesWithId(teams, opponent_id)[1], role_map))>>

\* mutant: a series whose sub-games were all skipped falls back to the
\* series-level aggregates
RecordsOfSeries_with_fallback(record, team_id, opponent_id, role_map) ==
    IF FlatMap(record.series_state.games, LAMBDA g :
             GameOfTeams(record, _safe_int(g.sequenceNumber), g.teams,
                         team_id, opponent_id, role_map)) # <<>>
    THEN FlatMap(record.series_state.games, LAMBDA g :
             GameOfTeams(record, _safe_int(g.sequenceNumber), g.teams,
                         team_id, opponent_id, role_map))
    ELSE GameOfTeams(record, 0, record.series_state.teams, team_id, opponent_id, role_map)

\* normalize.py:134-178: the records of one raw series
RecordsOfSeries(record, team_id, opponent_id, role_map) ==
    IF record.series_state.games # <<>>
    THEN FlatMap(record.series_state.games, LAMBDA g :
             GameOfTeams(record, _safe_int(g.sequenceNumber), g.teams,
                         team_id, opponent_id, role_map))
    ELSE GameOfTeams(record, 0, record.series_state.teams, team_id, opponent_id, role_map)

\* normalize.py:127-180; role_map is what _load_role_map reads
normalize_records(records, team_id, opponent_id, role_map) ==
    FlatMap(records, LAMBDA record : RecordsOfSeries(record, team_id, opponent_id, role_map))

(***************************************************************************)
(* Specification SpecNormalize: normalize_records over raw series.         *)
(***************************************************************************)
MaxSeries == 2

RawPlayer(id, role, lane, character, champion, kills) ==
    [id |-> id, name |-> None, role |-> role, lane |-> lane, position |-> None,
     character |-> character, champion |-> champion, agent |-> JNull,
     kills |-> kills, deaths |-> JNull]

RawEntry(id, won, kills, players) ==
    [id |-> id, won |-> won, kills |-> kills, deaths |-> JStr("x"), players |-> players]

RawGame(sequenceNumber, teams) == [sequenceNumber |-> sequenceNumber, teams |-> teams]

\* series_state: an absent or empty "games" / "teams" is the empty list
RawSeries(series_id, start_time, state_games, state_teams) ==
    [series_id |-> series_id, start_time |-> start_time,
     series_state |-> [games |-> state_games, teams |-> state_teams]]

RawPlayers ==
    <<RawPlayer("p1", "top", None, JStr("Ornn"), JNull, JInt(3)),
      RawPlayer(None, None, "mid", JNull, JObj("Ahri", "c1"), JStr("2")),
      RawPlayer("p3", None, None, JObj(None, "c2"), JNull, JNull),
      RawPlayer("", None, None, JNull, JNull, JStr(" 3 "))>>

\* two sub-games with the sides in either order; a sub-game without the
\* opponent and one without sequence number; a series with aggregates only;
\* a series without state; a series whose only sub-game lists a third team
\* while its aggregates list both sides
RawSeriesPool ==
    { RawSeries("s1", "2025-12-01T12:00:00Z",
                <<RawGame(JInt(1), <<RawEntry("teamA", "True", JInt(10), <<>>),
                                     RawEntry("teamB", "False", JInt(5), RawPlayers)>>),
                  RawGame(JInt(2), <<RawEntry("teamB", "True", JStr("2"), <<>>),
                                     RawEntry("teamA", "False", JNull, <<>>)>>)>>,
                <<>>),
      RawSeries("s2", "",
                <<RawGame(JNull, <<RawEntry("teamA", None, JNull, <<>>),
                                   RawEntry("teamB", None, JNull, <<>>)>>),
                  RawGame(JInt(2), <<RawEntry("teamA", "True", JNull, <<>>),
                                     RawEntry("teamC", "False", JNull, <<>>)>>)>>,
                <<>>),
      RawSeries("s3", "2025-11-01T12:00:00Z",
                <<>>,
                <<RawEntry("teamB", "False", JInt(1), <<>>),
                  RawEntry("teamA", None, JInt(2), <<>>)>>),
      RawSeries("s4", "", <<>>, <<>>),
      RawSeries("s5", "",
                <<RawGame(JStr("2"), <<RawEntry("teamC", "True", JNull, <<>>),
                                       RawEntry(None, "False", JNull, <<>>)>>)>>,
                <<RawEntry("teamA", "True", JNull, <<>>),
                  RawEntry("teamB", "False", JNull, <<>>)>>) }

\* the ids the caller resolved; "" when a name could not be resolved
TeamIds == {"", "teamA", "teamB"}

\* normalize.py:66-76: the override file of SCOUTING_ROLE_MAP, or nothing
RoleMaps == {<<>>, <<[k |-> "c2", v |-> "jungle"]>>}

InitNormalize ==
    /\ games = <<>>
    /\ stats = MatchupStats(0, 0)
    /\ env = [hashSeed |-> 0]
    /\ call = NoCall
    /\ ret = NoRet
    /\ runs = <<>>

NormalizeRecords ==
    /\ call.fn = "none"
    /\ \E records \in SeqsUpTo(RawSeriesPool, MaxSeries), team_id \in TeamIds,
          opponent_id \in TeamIds, role_map \in RoleMaps :
          /\ call' = [fn |-> "normalize_records", records |-> records,
                      team_id |-> team_id, opponent_id |-> opponent_id]
          /\ ret' = [value |-> normalize_records(records, team_id, opponent_id, role_map)]
    /\ UNCHANGED <<games, stats, env, runs>>

NextNormalize == NormalizeRecords

SpecNormalize == InitNormalize /\ [][NextNormalize]_vars

\* whether a list of raw team entries has an entry for each of the two ids
ListsBoth(teams, team_id, opponent_id) ==
    /\ \E i \in DOMAIN teams : PyStr(teams[i].id) = team_id
    /\ \E i \in DOMAIN teams : PyStr(teams[i].id) = opponent_id

NumberOf(g) == [series_id |-> g.series_id, game_number |-> g.game_number]

\* the (series, number) pairs the statement of C11 expects of one series
PerSubGame(record) ==
    IF record.series_state.games # <<>>
    THEN MapSeq(record.series_state.games, LAMBDA g :
             [series_id |-> record.series_id, game_number |-> _safe_int(g.sequenceNumber)])
    ELSE IF record.series_state.teams # <<>>
    THEN <<[series_id |-> record.series_id, game_number |-> 0]>>
    ELSE <<>>

\* the same, keeping only what lists both sides
PerListedSubGame(record, team_id, opponent_id) ==
    IF record.series_state.games # <<>>
    THEN MapSeq(SelectSeq(record.series_state.games,
                          LAMBDA g : ListsBoth(g.teams, team_id, opponent_id)),
                LAMBDA g : [series_id |-> record.series_id,
                            game_number |-> _safe_int(g.sequenceNumber)])
    ELSE IF ListsBoth(record.series_state.teams, team_id, opponent_id)
    THEN <<[series_id |-> record.series_id, game_number |-> 0]>>
    ELSE <<>>

\* C11 (as stated): every sub-game of a series with a games array gives one
\* record numbered by its sequenceNumber, every series without games array
\* but with team aggregates gives one record numbered 0, in input order.
C11_OneRecordPerSubGame ==
    call.fn = "normalize_records" =>
        MapSeq(ret.value, NumberOf) = FlatMap(call.records, PerSubGame)

\* C11 (amended): the same for the sub-games, and the aggregates, that list
\* both the team's and the opponent's id; the others give no record, and a
\* missing or unreadable sequenceNumber gives number 0.
C11_OneRecordPerListedSubGame ==
    call.fn = "normalize_records" =>
        MapSeq(ret.value, NumberOf) =
            FlatMap(call.records,
                    LAMBDA r : PerListedSubGame(r, call.team_id, call.opponent_id))

\* C11 witness: two sub-games numbered 1 and 2 and a series-level record
\* numbered 0 were produced, in that order
C11_Witness ==
    /\ Returned("normalize_records")
    /\ MapSeq(ret.value, NumberOf) =
           <<[series_id |-> "s1", game_number |-> 1],
             [series_id |-> "s1", game_number |-> 2],
             [series_id |-> "s3", game_number |-> 0]>>

\* C12: every record has team.team_id = team_id and opponent.team_id =
\* opponent_id, and result is "win" iff team.won is true, "loss" iff
\* team.won is not true and opponent.won is true, "unknown" otherwise.
C12_SidesByIdAndResult ==
    call.fn = "normalize_records" =>
        \A i \in DOMAIN ret.value :
            /\ ret.value[i].team.team_id = call.team_id
            /\ ret.value[i].opponent.team_id = call.opponent_id
            /\ ret.value[i].result \in {"win", "loss", "unknown"}
            /\ ret.value[i].result = "win" <=> ret.value[i].team.won = "True"
            /\ ret.value[i].result = "loss" <=>
                   (ret.value[i].team.won # "True" /\ ret.value[i].opponent.won = "True")

\* C12 witness: the sub-game that lists teamB before teamA gave a loss for
\* teamA
C12_Witness ==
    /\ Returned("normalize_records")
    /\ call.team_id = "teamA"
    /\ call.opponent_id = "teamB"
    /\ \E i \in DOMAIN ret.value :
          /\ ret.value[i].game_number = 2
          /\ ret.value[i].result = "loss"
          /\ ret.value[i].team.team_id = "teamA"

(***************************************************************************)
(* Specification SpecCounters: suggest_counters over matchup tables,       *)
(* opponent players and pick pools.                                        *)
(***************************************************************************)
MaxTopK == 2

\* the history the tables are cut from
FullTable ==
    (<<"top", "Gnar", "Ahri">> :> MatchupStats(3, 3)) @@
    (<<"top", "Ornn", "Ahri">> :> MatchupStats(2, 1)) @@
    (<<"top", "Vi", "Ahri">> :> MatchupStats(1, 0)) @@
    (<<"top", "Gnar", "Jinx">> :> MatchupStats(1, 1)) @@
    (<<"mid", "Vi", "Jinx">> :> MatchupStats(5, 2))

Restrict(f, S) == [x \in S |-> f[x]]

MatchupTables == {Restrict(FullTable, S) : S \in SUBSET DOMAIN FullTable}

ComfortPick(character) == [character |-> character, weight |-> One, share |-> One]

OpponentPlayer(pid, role, picks) ==
    [k |-> pid, v |-> [player_id |-> pid, role |-> role,
                       comfort_picks |-> MapSeq(picks, ComfortPick)]]

\* per_player entries: a top player, a second top player with two comfort
\* picks, a player without role, a mid player, a player without picks
OpponentPlayers ==
    { OpponentPlayer("p1", "top", <<"Ahri">>),
      OpponentPlayer("p2", "top", <<"Jinx", "Ahri">>),
      OpponentPlayer("p3", None, <<"Ahri">>),
      OpponentPlayer("p4", "mid", <<"Jinx">>),
      OpponentPlayer("p5", "top", <<>>) }

\* the lists of up to two players with distinct ids
OpponentLists ==
    {s \in SeqsUpTo(OpponentPlayers, 2) : \A i, j \in DOMAIN s : i # j => s[i].k # s[j].k}

Pool(pid, picks) == [k |-> pid, v |-> picks]

\* no pool; one player's pool; two players sharing a pick, the weights
\* putting the weaker matchup first; a pool with a pick of weight 0
OurPools ==
    { <<>>,
      <<Pool("t1", <<[k |-> "Vi", v |-> One], [k |-> "Gnar", v |-> Frac(1, 2)]>>)>>,
      <<Pool("t1", <<[k |-> "Ornn", v |-> Frac(2, 1)], [k |-> "Gnar", v |-> Frac(1, 4)]>>),
        Pool("t2", <<[k |-> "Gnar", v |-> Frac(1, 4)], [k |-> "Vi", v |-> Frac(3, 1)],
                     [k |-> "Lulu", v |-> One]>>)>>,
      <<Pool("t1", <<[k |-> "Gnar", v |-> Zero], [k |-> "Ornn", v |-> One]>>)>> }

InitCounters ==
    /\ games = <<>>
    /\ stats = MatchupStats(0, 0)
    /\ env = [hashSeed |-> 0]
    /\ call = NoCall
    /\ ret = NoRet
    /\ runs = <<>>

SuggestCounters ==
    /\ call.fn = "none"
    /\ \E matchup_table \in MatchupTables, opponent_players \in OpponentLists,
          our_pools \in OurPools, top_k \in 1..MaxTopK :
          /\ call' = [fn |-> "suggest_counters", matchup_table |-> matchup_table,
                      opponent_players |-> opponent_players, our_pools |-> our_pools,
                      top_k |-> top_k]
          /\ ret' = [value |-> suggest_counters(matchup_table, opponent_players,
                                                our_pools, top_k)]
    /\ UNCHANGED <<games, stats, env, runs>>

NextCounters == SuggestCounters

SpecCounters == InitCounters /\ [][NextCounters]_vars

\* the weight of a character in the pools: the sum over the players
PoolWeight(pools, ch) ==
    FracSum(FlatMap(pools, LAMBDA pool :
                MapSeq(SelectSeq(pool.v, LAMBDA e : e.k = ch), LAMBDA e : e.v)))

PoolCharacters(pools) ==
    UNION {{pools[i].v[j].k : j \in DOMAIN pools[i].v} : i \in DOMAIN pools}

\* the score the statement gives a candidate
ScoreOf(table, pools, role, ours, theirs) ==
    FracMul(FracMul(posterior_winrate(table[<<role, ours, theirs>>], 2, 2),
                    confidence(table[<<role, ours, theirs>>])),
            PoolWeight(pools, ours))

\* the characters of the pool with history against (role, theirs)
CandidatesFor(table, pools, role, theirs) ==
    {ours \in PoolCharacters(pools) : <<role, ours, theirs>> \in DOMAIN table}

\* how many opponent players of that role have that comfort pick
PlayersWith(players, role, theirs) ==
    Cardinality({i \in DOMAIN players :
                    /\ players[i].v.role = role
                    /\ \E j \in DOMAIN players[i].v.comfort_picks :
                          players[i].v.comfort_picks[j].character = theirs})

\* one player's counters against one pick: listed, a run of the list
RunIsRanked(listed, table, pools, role, theirs, top_k) ==
    /\ Len(listed) = Min(top_k, Cardinality(CandidatesFor(table, pools, role, theirs)))
    /\ \A i \in DOMAIN listed :
          /\ listed[i].our_champ \in CandidatesFor(table, pools, role, theirs)
          /\ listed[i].score = ScoreOf(table, pools, role, listed[i].our_champ, theirs)
          /\ listed[i].samples = table[<<role, listed[i].our_champ, theirs>>].games
          /\ i > 1 => FracLe(listed[i].score, listed[i - 1].score)
          /\ \A o \in CandidatesFor(table, pools, role, theirs) :
                (\A j \in DOMAIN listed : listed[j].our_champ # o) =>
                    FracLe(ScoreOf(table, pools, role, o, theirs), listed[i].score)

\* the counters listed under a role against one pick are one ranked run
\* per opponent player of that role with that comfort pick
RunsAreRanked(listed, players, table, pools, role, theirs, top_k) ==
    /\ Truthy(role)
    /\ PlayersWith(players, role, theirs) > 0
    /\ Len(listed) = PlayersWith(players, role, theirs)
                        * Min(top_k, Cardinality(CandidatesFor(table, pools, role, theirs)))
    /\ \A p \in 1..PlayersWith(players, role, theirs) :
          RunIsRanked(SubSeq(listed,
                             (p - 1) * (Len(listed) \div PlayersWith(players, role, theirs)) + 1,
                             p * (Len(listed) \div PlayersWith(players, role, theirs))),
                      table, pools, role, theirs, top_k)

\* C13: every listed counter has its key in the matchup table and its own
\* character in the pool; per opponent comfort pick at most top_k are
\* listed, by non-increasing score = posterior_winrate * confidence *
\* weight, and no omitted candidate scores higher than a listed one.
C13_CountersRanked ==
    call.fn = "suggest_counters" =>
        \A r \in DOMAIN ret.value.by_role :
            /\ ret.value.by_role[r].v # <<>>
            /\ \A i \in DOMAIN ret.value.by_role[r].v :
                  RunsAreRanked(SelectSeq(ret.value.by_role[r].v,
                                    LAMBDA e : e.their_champ =
                                        ret.value.by_role[r].v[i].their_champ),
                                call.opponent_players, call.matchup_table, call.our_pools,
                                ret.value.by_role[r].k,
                                ret.value.by_role[r].v[i].their_champ, call.top_k)

\* C13 witness: with top_k = 1 and two candidates against top Ahri, the
\* one listed is Gnar although the pool lists Vi first
C13_Witness ==
    /\ Returned("suggest_counters")
    /\ call.top_k = 1
    /\ CandidatesFor(call.matchup_table, call.our_pools, "top", "Ahri") = {"Vi", "Gnar"}
    /\ call.our_pools[1].v[1].k = "Vi"
    /\ \E r \in DOMAIN ret.value.by_role :
          /\ ret.value.by_role[r].k = "top"
          /\ ret.value.by_role[r].v[1].their_champ = "Ahri"
          /\ ret.value.by_role[r].v[1].our_champ = "Gnar"

\* C14: with our_pools absent or empty suggest_counters returns, the level
\* is "low" ("high" iff our_pools is non-empty), and counters are still
\* ranked: an opponent comfort pick with history in the table gets one.
C14_LowPersonalizationStillRanks ==
    call.fn = "suggest_counters" =>
        /\ "value" \in DOMAIN ret
        /\ ret.value.personalization_level = "high" <=> call.our_pools # <<>>
        /\ ret.value.personalization_level = "low" <=> call.our_pools = <<>>
        /\ (/\ call.our_pools = <<>>
            /\ \E i \in DOMAIN call.opponent_players, key \in DOMAIN call.matchup_table :
                  /\ key[1] = call.opponent_players[i].v.role
                  /\ PlayersWith(call.opponent_players, key[1], key[3]) > 0)
           => ret.value.by_role # <<>>

(***************************************************************************)
(* Specification SpecEntropy: _entropy over weight lists.                  *)
(***************************************************************************)
MaxCategories == 7
MaxWeight == 2

\* counts.values(): up to MaxCategories weights, zero included
WeightLists == SeqsUpTo({Frac(w, 1) : w \in 0..MaxWeight}, MaxCategories)

InitEntropy ==
    /\ games = <<>>
    /\ stats = MatchupStats(0, 0)
    /\ env = [hashSeed |-> 0]
    /\ call = NoCall
    /\ ret = NoRet
    /\ runs = <<>>

Entropy ==
    /\ call.fn = "none"
    /\ \E values \in WeightLists :
          /\ call' = [fn |-> "_entropy", values |-> values]
          /\ ret' = [value |-> _entropy(values)]
    /\ UNCHANGED <<games, stats, env, runs>>

NextEntropy == Entropy

SpecEntropy == InitEntropy /\ [][NextEntropy]_vars

\* the positive weights of a list
Positive(values) == SelectSeq(values, LAMBDA v : v.n > 0)

IsUniform(values) == \A i \in DOMAIN values : values[i] = values[1]

\* C15: _entropy is 0 for an empty or all-zero distribution and for one
\* positive category, 1 for a uniform distribution over N > 1 positive
\* categories, and in [0,1] for every distribution.
C15_EntropyNormalized ==
    call.fn = "_entropy" =>
        /\ Len(Positive(call.values)) <= 1 => ret.value = 0
        /\ (Len(Positive(call.values)) > 1 /\ IsUniform(Positive(call.values)))
               => ret.value = Unit
        /\ 0 <= ret.value
        /\ ret.value <= Unit

(***************************************************************************)
(* The counter matrix (report.py:122-168).                                 *)
(***************************************************************************)
\* report.py:130-139: (role, character) of every comfort pick of a player
\* with role and picks
RoleRows(per_player) ==
    FlatMap(per_player, LAMBDA p :
        IF ~Truthy(p.v.role) \/ p.v.comfort_picks = <<>> THEN <<>>
        ELSE MapSeq(SelectSeq(p.v.comfort_picks, LAMBDA pick : Truthy(pick.character)),
                    LAMBDA pick : [role |-> p.v.role, character |-> pick.character]))

\* report.py:130-135: the roles that got a row list, in insertion order
RowRoles(per_player) ==
    Dedup(MapSeq(SelectSeq(per_player,
                           LAMBDA p : Truthy(p.v.role) /\ p.v.comfort_picks # <<>>),
                 LAMBDA p : p.v.role))

\* report.py:142-146
MatrixCols(our_pools, max_cols) ==
    Take(MapSeq(SortDescBy(_flatten_pick_rates(our_pools), WeightLt), LAMBDA e : e.k),
         max_cols)

\* report.py:155-165
MatrixCell(matchup_table, key) ==
    IF key \in DOMAIN matchup_table
    THEN [winrate |-> <<posterior_winrate(matchup_table[key], 2, 2)>>,
          samples |-> matchup_table[key].games,
          confidence |-> confidence(matchup_table[key])]
    ELSE [winrate |-> <<>>, samples |-> 0, confidence |-> Zero]

\* report.py:149-167
MatrixOfRole(matchup_table, role, row_list, cols) ==
    [rows |-> row_list,
     cols |-> cols,
     cells |-> MapSeq(row_list, LAMBDA r :
                   MapSeq(cols, LAMBDA c : MatrixCell(matchup_table, <<role, c, r>>)))]

\* report.py:122-168; an absent winrate (None) is the empty list
_build_counter_matrix(matchup_table, per_player, our_pools, max_rows, max_cols) ==
    MapSeq(RowRoles(per_player), LAMBDA role :
        [k |-> role,
         v |-> MatrixOfRole(matchup_table, role,
                   Take(Dedup(MapSeq(SelectSeq(RoleRows(per_player),
                                               LAMBDA e : e.role = role),
                                     LAMBDA e : e.character)),
                        max_rows),
                   MatrixCols(our_pools, max_cols))])

(***************************************************************************)
(* What the engine leaves in its arguments.                                *)
(***************************************************************************)
\* mutant: list.sort() in place of sorted()
ListAfterSort(gs) == _sorted_by_time(gs)

\* randomness.py:45: sorted(games, ...) builds a new list
ListAfterSorted(gs) == gs

\* mutant: table[key] on the defaultdict in place of table.get(key)
TableAfterIndexing(matchup_table, keys) ==
    [key \in DOMAIN matchup_table \cup keys |->
        IF key \in DOMAIN matchup_table THEN matchup_table[key] ELSE MatchupStats(0, 0)]

\* matchups.py:98, report.py:154: table.get(key) adds no entry
TableAfterGet(matchup_table, keys) == matchup_table

\* matchups.py:86-97, report.py:149-154: the keys looked up
KeysLookedUp(per_player, our_pools) ==
    {<<RoleRows(per_player)[i].role, _flatten_pick_rates(our_pools)[j].k,
       RoleRows(per_player)[i].character>> :
        i \in DOMAIN RoleRows(per_player), j \in DOMAIN _flatten_pick_rates(our_pools)}

(***************************************************************************)
(* Specification SpecFrame: the engine's functions called one after the    *)
(* other on one game list; call.games is the list as it was passed.        *)
(***************************************************************************)
Aggregators ==
    {"compute_champion_winrates", "compute_roster_stability", "compute_match_outcomes",
     "compute_data_coverage"}

Aggregate(fn, gs, side) ==
    CASE fn = "compute_champion_winrates" -> compute_champion_winrates(gs, side, 3)
      [] fn = "compute_roster_stability" -> compute_roster_stability(gs, side)
      [] fn = "compute_match_outcomes" -> compute_match_outcomes(gs)
      [] OTHER -> compute_data_coverage(gs)

InitFrame == InitReport

FrameAggregator ==
    /\ \E fn \in Aggregators, side \in Sides :
          /\ call' = [fn |-> fn, games |-> games]
          /\ ret' = [value |-> Aggregate(fn, games, side)]
    /\ games' = games
    /\ UNCHANGED <<stats, env, runs>>

FrameBuildMatchupTable ==
    /\ call' = [fn |-> "build_matchup_table", games |-> games]
    /\ ret' = [value |-> build_matchup_table(games)]
    /\ games' = games
    /\ UNCHANGED <<stats, env, runs>>

\* the weights of the games, once none of them raises
Weights(gs) == MapSeq(RecencyWeights(gs), LAMBDA w : w.value)

FrameOnTable(fn, matchup_table, per_player, our_pools) ==
    /\ call' = [fn |-> fn, games |-> games, matchup_table |-> matchup_table,
                table_after |-> TableAfterGet(matchup_table,
                                              KeysLookedUp(per_player, our_pools))]
    /\ ret' = [value |->
                 IF fn = "suggest_counters"
                 THEN suggest_counters(matchup_table, per_player, our_pools, 3)
                 ELSE _build_counter_matrix(matchup_table, per_player, our_pools, 6, 6)]

\* report.py:224, 228: the table build_matchup_table returned is passed on
FrameSuggestCounters ==
    /\ call.fn = "build_matchup_table"
    /\ ~Raised(RecencyWeights(games))
    /\ FrameOnTable("suggest_counters", ret.value,
                    compute_per_player_tendencies(games, Weights(games)).per_player,
                    compute_our_pick_pools(games, Weights(games)))
    /\ games' = games
    /\ UNCHANGED <<stats, env, runs>>

FrameCounterMatrix ==
    /\ call.fn = "build_matchup_table"
    /\ ~Raised(RecencyWeights(games))
    /\ FrameOnTable("_build_counter_matrix", ret.value,
                    compute_per_player_tendencies(games, Weights(games)).per_player,
                    compute_our_pick_pools(games, Weights(games)))
    /\ games' = games
    /\ UNCHANGED <<stats, env, runs>>

FrameClusterScenarios ==
    /\ \E sample \in ClusterSamples(games) :
          ret' = [value |-> cluster_scenarios_with_labels(games, sample)]
    /\ call' = [fn |-> "cluster_scenarios_with_labels", games |-> games]
    /\ games' = games
    /\ UNCHANGED <<stats, env, runs>>

FrameComputeRandomness ==
    /\ \E sample \in ClusterSamples(games) :
          ret' = [value |-> compute_randomness(
                                games, cluster_scenarios_with_labels(games, sample).cards)]
    /\ call' = [fn |-> "compute_randomness", games |-> games]
    /\ games' = ListAfterSorted(games)
    /\ UNCHANGED <<stats, env, runs>>

FrameBuildReport ==
    /\ \E s1 \in ClusterSamples(games), s2 \in ClusterSamples(games) :
          ret' = build_report(games, Meta, cluster_scenarios_with_labels(games, s1),
                              cluster_scenarios_with_labels(games, s2))
    /\ call' = [fn |-> "build_report", games |-> games]
    /\ games' = IF Raised(RecencyWeights(games)) THEN games ELSE ListAfterSorted(games)
    /\ UNCHANGED <<stats, env, runs>>

NextFrame ==
    \/ FrameAggregator
    \/ FrameBuildMatchupTable
    \/ FrameSuggestCounters
    \/ FrameCounterMatrix
    \/ FrameClusterScenarios
    \/ FrameComputeRandomness
    \/ FrameBuildReport

SpecFrame == InitFrame /\ [][NextFrame]_vars

RngStates == 4

Threads == {1, 2}

RECURSIVE NthOf(_, _)
\* the elements of a set in a fixed order
NthOf(S, i) ==
    IF i = 0 THEN CHOOSE x \in S : TRUE
    ELSE NthOf(S \ {CHOOSE x \in S : TRUE}, i - 1)

\* random.sample with the generator in state rng: the draw is a function of
\* the state
SampleAt(gs, rng) == NthOf(ClusterSamples(gs), rng % Cardinality(ClusterSamples(gs)))

\* the state after one clustering of gs: random.sample is called when k
\* centres are drawn from at least k vectors (scenarios.py:48, 90-99)
RngAfter(gs, rng) ==
    IF ClusterSamples(gs) = {<<>>} THEN rng ELSE (rng + 1) % RngStates

\* build_report run with nothing else using the generator
ReportAlone(gs, rng) ==
    build_report(gs, Meta,
                 cluster_scenarios_with_labels(gs, SampleAt(gs, rng)),
                 cluster_scenarios_with_labels(gs, SampleAt(gs, RngAfter(gs, rng))))

\* two games apart in the feature space; one game; a game whose timestamp
\* has no offset
ThreadGames ==
    { <<GameRecord("2025-11-01T12:00:00Z",
                   TeamGameState("teamA", "True", 10, 5, <<PlayerPerf("t1", "top", "Gnar")>>),
                   TeamGameState("teamB", "False", 5, 10, <<PlayerPerf("p1", "top", "Ornn")>>)),
        GameRecord("2999-01-01T00:00:00Z",
                   TeamGameState("teamA", "False", 5, 10, <<PlayerPerf("t1", "top", "Ornn")>>),
                   TeamGameState("teamB", "True", 10, 5, <<PlayerPerf("p1", "top", "Gnar")>>))>>,
      <<GameRecord("",
                   TeamGameState("teamA", None, 0, 0, <<>>),
                   TeamGameState("teamB", None, 0, 0, <<PlayerPerf("p2", "mid", "Ahri")>>)),
        GameRecord("not-a-time",
                   TeamGameState("teamA", "True", 3, 1, <<>>),
                   TeamGameState("teamB", "False", 1, 3, <<PlayerPerf("p2", "mid", "Jinx")>>))>>,
      <<GameRecord("",
                   TeamGameState("teamA", "True", 10, 5, <<>>),
                   TeamGameState("teamB", "False", 5, 10, <<>>))>>,
      <<GameRecord("2025-12-01T12:00:00",
                   TeamGameState("teamA", "True", 10, 5, <<>>),
                   TeamGameState("teamB", "False", 5, 10, <<>>))>> }

InitThreads ==
    /\ games \in [Threads -> ThreadGames]
    /\ stats = MatchupStats(0, 0)
    /\ env \in [hashSeed : HashSeeds, rng : 0..(RngStates - 1)]
    /\ call = [fn |-> "none", pc |-> [t \in Threads |-> "idle"],
               rng |-> [t \in Threads |-> 0]]
    /\ ret = [t \in Threads |-> NoRet]
    /\ runs = [t \in Threads |-> <<>>]

\* report.py:214-217: the call starts; compute_per_player_tendencies raises
\* on a timestamp without offset.  call.rng[t] is the generator's state at
\* that moment.
ThreadStart(t) ==
    /\ call.pc[t] = "idle"
    /\ call' = [fn |-> "build_report",
                pc |-> [call.pc EXCEPT ![t] = IF Raised(RecencyWeights(games[t]))
                                              THEN "done" ELSE "first"],
                rng |-> [call.rng EXCEPT ![t] = env.rng]]
    /\ ret' = [ret EXCEPT ![t] = IF Raised(RecencyWeights(games[t]))
                                 THEN [raised |-> "TypeError"] ELSE NoRet]
    /\ UNCHANGED <<games, stats, env, runs>>

\* report.py:218
ThreadFirstClustering(t) ==
    /\ call.pc[t] = "first"
    /\ runs' = [runs EXCEPT ![t] =
                   <<Run(cluster_scenarios_with_labels(games[t], SampleAt(games[t], env.rng)))>>]
    /\ env' = [env EXCEPT !.rng = RngAfter(games[t], env.rng)]
    /\ call' = [call EXCEPT !.pc[t] = "second"]
    /\ UNCHANGED <<games, stats, ret>>

\* report.py:219-304: the clustering inside compute_randomness, then the
\* rest of the report
ThreadSecondClustering(t) ==
    /\ call.pc[t] = "second"
    /\ ret' = [ret EXCEPT ![t] =
                  build_report(games[t], Meta, runs[t][1],
                               cluster_scenarios_with_labels(games[t],
                                                             SampleAt(games[t], env.rng)))]
    /\ env' = [env EXCEPT !.rng = RngAfter(games[t], env.rng)]
    /\ call' = [call EXCEPT !.pc[t] = "done"]
    /\ UNCHANGED <<games, stats, runs>>

NextThreads ==
    \E t \in Threads :
        \/ ThreadStart(t)
        \/ ThreadFirstClustering(t)
        \/ ThreadSecondClustering(t)

SpecThreads == InitThreads /\ [][NextThreads]_vars

\* C17: in every interleaving of two build_report calls each call returns
\* the report it returns when run alone from the state it started in.
C17_ReportsIndependent ==
    \A t \in Threads :
        call.pc[t] = "done" => ret[t] = ReportAlone(games[t], call.rng[t])

\* C18: the rows of compute_champion_winrates are in descending (stable,
\* games, winrate) order: no unstable row precedes a stable one; of two rows
\* with equal stable the one with more games is first; of two with equal
\* stable and games the one with the higher winrate is first.
C18_RowsOrdered ==
    Returned("compute_champion_winrates") =>
        \A i, j \in DOMAIN ret.value :
            i < j =>
               /\ ret.value[j].stable => ret.value[i].stable
               /\ ret.value[i].stable = ret.value[j].stable =>
                     ret.value[i].games >= ret.value[j].games
               /\ (/\ ret.value[i].stable = ret.value[j].stable
                   /\ ret.value[i].games = ret.value[j].games) =>
                     FracLe(ret.value[j].winrate, ret.value[i].winrate)

\* C18 witness: three games, first pick counted Ornn (one game, lost), then
\* Gnar (won, lost); at min_games = 1 both rows are stable and the
\* Gnar row, counted later, comes first on its games
C18_Witness ==
    /\ Returned("compute_champion_winrates")
    /\ call.side = "opponent" /\ call.min_games = 1
    /\ Len(games) = 3
    /\ \A i \in 1..3 : Len(games[i].opponent.players) = 1
    /\ games[1].opponent.players[1].character = "Ornn" /\ games[1].opponent.won = "False"
    /\ games[2].opponent.players[1].character = "Gnar" /\ games[2].opponent.won = "True"
    /\ games[3].opponent.players[1].character = "Gnar" /\ games[3].opponent.won = "False"
    /\ Len(ret.value) = 2
    /\ ret.value[1].character = "Gnar" /\ ret.value[1].games = 2
    /\ ret.value[2].character = "Ornn" /\ ret.value[2].games = 1
    /\ ret.value[1].stable /\ ret.value[2].stable

(***************************************************************************)
(* _choose_k with and without the optional scoring library                 *)
(* (scenarios.py:61-80).  The library is not part of the repository; it    *)
(* is modelled by its contract: KMeans(n_clusters=k).fit_predict gives     *)
(* each of k distinct points a label of its own and cannot give more       *)
(* labels than there are distinct points, and silhouette_score raises      *)
(* ValueError unless 2 <= number of labels <= n_samples - 1, and           *)
(* otherwise returns a score in [-1, 1].  library.score[k] is the score    *)
(* returned for candidate k when one is returned.                          *)
(***************************************************************************)
\* the longest list of game vectors
MaxVectors == 5

\* silhouette scores told apart: -1.0, 0.0, 1.0
Scores == {-1, 0, 1}

\* scenarios.py:72  range(2, min(4, n) + 1)
CandidateKs(n) == 2..Min(4, n)

Libraries ==
    {[available |-> FALSE, score |-> [k \in 2..4 |-> 0]]}
        \cup [available : {TRUE}, score : [2..4 -> Scores]]

\* scenarios.py:73-74  the number of distinct labels of model.fit_predict
LabelCount(vectors, k) == Min(k, Cardinality({vectors[i] : i \in DOMAIN vectors}))

\* scenarios.py:75  silhouette_score(vectors, labels) raises ValueError
SilhouetteRaises(vectors, k) ==
    ~(2 <= LabelCount(vectors, k) /\ LabelCount(vectors, k) <= Len(vectors) - 1)

\* mutant: the fixed split is one cluster per game
FixedSplit_per_game(n) == n

\* scenarios.py:79-80  except Exception: return min(3, n)
FixedSplit(n) == Min(3, n)

RECURSIVE ScoreCandidates(_, _, _, _, _)
\* scenarios.py:72-78: the loop from candidate k on; best_k and best_score
\* are replaced on a strictly greater score
ScoreCandidates(vectors, library, k, best_k, best_score) ==
    IF k > Min(4, Len(vectors)) THEN best_k
    ELSE IF SilhouetteRaises(vectors, k) THEN FixedSplit(Len(vectors))
    ELSE IF library.score[k] > best_score
         THEN ScoreCandidates(vectors, library, k + 1, k, library.score[k])
         ELSE ScoreCandidates(vectors, library, k + 1, best_k, best_score)

\* scenarios.py:61-80; the import at 66-67 raises when the library is absent
_choose_k_with(vectors, library) ==
    IF Len(vectors) <= 2 THEN Max(1, Len(vectors))
    ELSE IF ~library.available THEN FixedSplit(Len(vectors))
    ELSE ScoreCandidates(vectors, library, 2, 2, -1)

\* scenarios.py:72-75: the candidates a score was obtained for
ScoredKs(vectors, library) ==
    IF Len(vectors) <= 2 \/ ~library.available THEN {}
    ELSE {k \in CandidateKs(Len(vectors)) : \A j \in 2..k : ~SilhouetteRaises(vectors, j)}

\* four games with four different vectors
ChooseGames ==
    { GameRecord("", TeamGameState("teamA", None, 0, 0, <<>>),
                     TeamGameState("teamB", None, kills, 0, <<>>)) : kills \in 1..4 }

InitChooseK ==
    /\ games \in SeqsUpTo(ChooseGames, MaxVectors) \ {<<>>}
    /\ stats = MatchupStats(0, 0)
    /\ env \in [hashSeed : {0}, library : Libraries]
    /\ call = NoCall
    /\ ret = NoRet
    /\ runs = <<>>

\* scenarios.py:89  vectors = [_game_vector(g) for g in games]
VectorsOf(gs) == Tab(Len(gs), LAMBDA i : _game_vector(gs[i], Dim))

ChooseKOn(vectors) ==
    /\ call' = [fn |-> "_choose_k", vectors |-> vectors,
                scored |-> ScoredKs(vectors, env.library)]
    /\ ret' = [value |-> _choose_k_with(vectors, env.library)]

\* scenarios.py:90  k = _choose_k(vectors)
ChooseK ==
    /\ call.fn = "none"
    /\ ChooseKOn(VectorsOf(games))
    /\ UNCHANGED <<games, stats, env, runs>>

NextChooseK == ChooseK

SpecChooseK == InitChooseK /\ [][NextChooseK]_vars

\* C19: for a non-empty list of n vectors the chosen K has
\* 1 <= K <= min(4, n), K = n when n <= 2 and K >= 2 when n >= 3, with the
\* scoring library or without it (where it is the fixed split of
\* _choose_k); an integer is always returned.
C19_ChosenKInRange ==
    Returned("_choose_k") =>
        /\ ret.value \in 1..Min(4, Len(call.vectors))
        /\ Len(call.vectors) <= 2 => ret.value = Len(call.vectors)
        /\ Len(call.vectors) >= 3 => ret.value >= 2
        /\ ~env.library.available => ret.value = _choose_k(call.vectors)

\* C19 witness: five vectors, the library available, every candidate scored
\* and K = 4 returned
C19_Witness ==
    /\ Returned("_choose_k")
    /\ env.library.available
    /\ Len(call.vectors) = 5
    /\ call.scored = {2, 3, 4}
    /\ ret.value = 4

\* C20: with the library available and n >= 3, every candidate K in
\* [2, min(4, n)] is scored and the K returned is the candidate with the
\* best score, the smallest one on ties.
C20_BestScoredCandidate ==
    (Returned("_choose_k") /\ env.library.available /\ Len(call.vectors) >= 3) =>
        /\ call.scored = CandidateKs(Len(call.vectors))
        /\ ret.value \in CandidateKs(Len(call.vectors))
        /\ \A k \in CandidateKs(Len(call.vectors)) :
              /\ env.library.score[k] <= env.library.score[ret.value]
              /\ env.library.score[k] = env.library.score[ret.value] => ret.value <= k

(***************************************************************************)
(* Specification SpecCluster: one call of cluster_scenarios_with_labels    *)
(* on a list of up to MaxClusterGames games (scenarios.py:83-135).         *)
(***************************************************************************)
MaxClusterGames == 4

\* two games one pick apart, whose rosters share two picks, and a game far
\* from both with no pick known
ClusterGames ==
    { GameRecord("", TeamGameState("teamA", "False", 1, 1, <<>>),
                 TeamGameState("teamB", "True", 1, 1,
                               <<PlayerPerf("p1", "top", "Gnar"), PlayerPerf("p2", "mid", "Ahri"),
                                 PlayerPerf("p3", "bot", "Jinx")>>)),
      GameRecord("", TeamGameState("teamA", "False", 1, 1, <<>>),
                 TeamGameState("teamB", "True", 1, 1,
                               <<PlayerPerf("p2", "mid", "Ahri"), PlayerPerf("p3", "bot", "Jinx")>>)),
      GameRecord("", TeamGameState("teamA", "True", 9, 1, <<>>),
                 TeamGameState("teamB", "False", 1, 9, <<PlayerPerf("p1", None, None)>>)) }

InitCluster ==
    /\ games \in SeqsUpTo(ClusterGames, MaxClusterGames) \ {<<>>}
    /\ stats = MatchupStats(0, 0)
    /\ env \in [hashSeed : HashSeeds]
    /\ call = NoCall
    /\ ret = NoRet
    /\ runs = <<>>

ClusterScenariosOn(gs, sample) ==
    /\ call' = [fn |-> "cluster_scenarios_with_labels", sample |-> sample,
                k |-> _choose_k(VectorsOf(gs))]
    /\ ret' = [value |-> cluster_scenarios_with_labels(gs, sample)]

\* scenarios.py:83-135; the sample is what random.sample draws at line 48
ClusterScenarios ==
    /\ call.fn = "none"
    /\ \E sample \in ClusterSamples(games) : ClusterScenariosOn(games, sample)
    /\ UNCHANGED <<games, stats, env, runs>>

NextCluster == ClusterScenarios

SpecCluster == InitCluster /\ [][NextCluster]_vars

\* the positions of the games carrying label cid
GamesLabelled(labels, cid) == {i \in DOMAIN labels : labels[i] = cid}

\* the cluster map and the labels describe the same partition
ClustersPartition(labels, clusters) ==
    /\ \A a, b \in DOMAIN clusters : a # b => clusters[a].cid # clusters[b].cid
    /\ {clusters[c].cid : c \in DOMAIN clusters} = Range(labels)
    /\ \A c \in DOMAIN clusters :
          /\ Range(clusters[c].games) = GamesLabelled(labels, clusters[c].cid)
          /\ Len(clusters[c].games) = Cardinality(GamesLabelled(labels, clusters[c].cid))
          /\ clusters[c].games # <<>>
    /\ \A i \in DOMAIN labels :
          Cardinality({c \in DOMAIN clusters : i \in Range(clusters[c].games)}) = 1

\* one card per cluster, its share the cluster's size over n
CardsOfClusters(cards, clusters, n) ==
    /\ Len(cards) = Len(clusters)
    /\ \A c \in DOMAIN clusters :
          Cardinality({i \in DOMAIN cards : cards[i].scenario_id = clusters[c].cid}) = 1
    /\ \A i \in DOMAIN cards :
          \E c \in DOMAIN clusters :
              /\ cards[i].scenario_id = clusters[c].cid
              /\ FracEq(cards[i].share, Frac(Len(clusters[c].games), n))
              /\ FracLt(Zero, cards[i].share) /\ FracLe(cards[i].share, One)

RECURSIVE SumShares(_, _)
SumShares(cards, i) ==
    IF i = 0 THEN Zero ELSE FracAdd(SumShares(cards, i - 1), cards[i].share)

ClusterPickCount(gs, idx, ch) ==
    Cardinality({s \in {<<i, j>> : i \in Range(idx), j \in 1..3} :
                    /\ s[2] \in DOMAIN gs[s[1]].opponent.players
                    /\ gs[s[1]].opponent.players[s[2]].character = ch})

\* the characters picked in a cluster
ClusterPicked(gs, idx) ==
    {ch \in {"Gnar", "Ahri", "Jinx"} : ClusterPickCount(gs, idx, ch) > 0}

\* plan names the picks with the highest counts in the cluster: two of them,
\* or the only one, and none that is picked less often than one left out
NamesTopTwo(gs, idx, plan) ==
    IF ClusterPicked(gs, idx) = {}
    THEN plan.text = "deny comfort picks" /\ plan.picks = <<>>
    ELSE /\ plan.text = "ban"
         /\ Range(plan.picks) \subseteq ClusterPicked(gs, idx)
         /\ Len(plan.picks) = Min(2, Cardinality(ClusterPicked(gs, idx)))
         /\ Cardinality(Range(plan.picks)) = Len(plan.picks)
         /\ \A p \in Range(plan.picks), q \in ClusterPicked(gs, idx) \ Range(plan.picks) :
               ClusterPickCount(gs, idx, p) >= ClusterPickCount(gs, idx, q)

\* C22: the punish plan of every card names the two characters with the
\* highest pick counts in its cluster (the one character if only one was
\* picked), and is the "deny comfort picks" text iff the cluster has no pick.
C22_PunishPlanNamesTopTwo ==
    Returned("cluster_scenarios_with_labels") =>
        \A i \in DOMAIN ret.value.cards, c \in DOMAIN ret.value.clusters :
            ret.value.cards[i].scenario_id = ret.value.clusters[c].cid =>
                NamesTopTwo(games, ret.value.clusters[c].games,
                            ret.value.cards[i].punish_plan)

(***************************************************************************)
(* Specification SpecKMeans: _kmeans_fallback (scenarios.py:45-58) round   *)
(* by round.  call holds the function's locals: vectors, k, the positions  *)
(* random.sample drew, the centres, the labels and the rounds done;        *)
(* call.before holds the centres the last round started from.              *)
(***************************************************************************)
MaxKMeansVectors == 3

MaxK == 3

\* scenarios.py:45  iterations: int = 10
Iterations == 10

KMeansVectors == {<<0, 0>>, <<4, 0>>, <<0, 2>>}

InitKMeans ==
    /\ games = <<>>
    /\ stats = MatchupStats(0, 0)
    /\ env = [hashSeed |-> 0]
    /\ call = NoCall
    /\ ret = NoRet
    /\ runs = <<>>

\* scenarios.py:48
InitialCentres(vectors, k, sample) ==
    IF Len(vectors) >= k
    THEN Tab(k, LAMBDA c : Centre(vectors[sample[c]], 1))
    ELSE Tab(k, LAMBDA c : Centre(vectors[1], 1))

\* the draws random.sample(vectors, k) can make, as positions
SamplesOf(vectors, k) == IF Len(vectors) >= k THEN Samples(Len(vectors), k) ELSE {<<>>}

\* scenarios.py:46-49: the empty list returns at once
KMeansCall(vectors, k, sample) ==
    /\ call' = [fn |-> "_kmeans_fallback", vectors |-> vectors, k |-> k, sample |-> sample,
                pc |-> IF vectors = <<>> THEN "done" ELSE "loop",
                rounds |-> 0,
                centers |-> IF vectors = <<>> THEN <<>> ELSE InitialCentres(vectors, k, sample),
                before |-> <<>>,
                labels |-> Tab(Len(vectors), LAMBDA i : 0)]
    /\ ret' = IF vectors = <<>> THEN [value |-> <<>>] ELSE NoRet

KMeansStart ==
    /\ call.fn = "none"
    /\ \E vectors \in SeqsUpTo(KMeansVectors, MaxKMeansVectors), k \in 1..MaxK :
          \E sample \in SamplesOf(vectors, k) : KMeansCall(vectors, k, sample)
    /\ UNCHANGED <<games, stats, env, runs>>

KMeansRoundOn(next) ==
    call' = [call EXCEPT !.labels = next.labels, !.centers = next.centers,
                         !.before = call.centers, !.rounds = @ + 1]

\* scenarios.py:50-57: one pass of `for _ in range(iterations)`
KMeansAssignUpdate ==
    /\ call.fn = "_kmeans_fallback" /\ call.pc = "loop"
    /\ call.rounds < Iterations
    /\ KMeansRoundOn(KMeansRound(call.vectors, call.centers))
    /\ UNCHANGED <<games, stats, env, ret, runs>>

\* scenarios.py:58
KMeansReturn ==
    /\ call.fn = "_kmeans_fallback" /\ call.pc = "loop"
    /\ call.rounds = Iterations
    /\ call' = [call EXCEPT !.pc = "done"]
    /\ ret' = [value |-> call.labels]
    /\ UNCHANGED <<games, stats, env, runs>>

NextKMeans == KMeansStart \/ KMeansAssignUpdate \/ KMeansReturn

SpecKMeans == InitKMeans /\ [][NextKMeans]_vars

\* label lab is the lowest-index centre at minimal distance from v
IsNearestLowest(v, centers, lab) ==
    /\ lab + 1 \in DOMAIN centers
    /\ \A o \in DOMAIN centers :
          IF o < lab + 1
          THEN FracLt(_euclidean2(v, centers[lab + 1]), _euclidean2(v, centers[o]))
          ELSE FracLe(_euclidean2(v, centers[lab + 1]), _euclidean2(v, centers[o]))

\* centre c is the mean of the vectors labelled c, or the one before if none is
IsMeanOrKept(vectors, labels, c, centre, before) ==
    IF GamesLabelled(labels, c - 1) = {} THEN centre = before
    ELSE \A j \in DOMAIN vectors[1] :
            FracEq(Frac(centre.sum[j], centre.cnt),
                   Frac(SumSeq([i \in DOMAIN vectors |->
                                   IF labels[i] = c - 1 THEN vectors[i][j] ELSE 0]),
                        Cardinality(GamesLabelled(labels, c - 1))))

\* the last round was an assign-then-update round
LastRoundIsStandard ==
    /\ \A i \in DOMAIN call.vectors :
          IsNearestLowest(call.vectors[i], call.before, call.labels[i])
    /\ \A c \in DOMAIN call.centers :
          IsMeanOrKept(call.vectors, call.labels, c, call.centers[c], call.before[c])

\* the centres the first round starts from
SeededAsClaimed ==
    IF Len(call.vectors) >= call.k
    THEN /\ Len(call.sample) = call.k
         /\ \A a, b \in DOMAIN call.sample : a # b => call.sample[a] # call.sample[b]
         /\ call.rounds = 0 =>
               \A c \in 1..call.k : call.centers[c] = Centre(call.vectors[call.sample[c]], 1)
    ELSE call.rounds = 0 =>
               \A c \in 1..call.k : call.centers[c] = Centre(call.vectors[1], 1)

\* C23, without its clause on n < k: ten rounds, each an assign-then-update
\* round, one label in [0, k) per vector, the seeds as claimed; the labels
\* are those of _kmeans_fallback
KMeansIsStandard ==
    (call.fn = "_kmeans_fallback" /\ call.vectors # <<>>) =>
        /\ SeededAsClaimed
        /\ call.rounds >= 1 => LastRoundIsStandard
        /\ Returned("_kmeans_fallback") =>
              /\ call.rounds = Iterations
              /\ Len(ret.value) = Len(call.vectors)
              /\ \A i \in DOMAIN ret.value : ret.value[i] \in 0..(call.k - 1)
              /\ ret.value = _kmeans_fallback(call.vectors, call.k, call.sample, Iterations)

MaxTendencyGames == 4

\* player p1 on one of three characters, or p1 and p2 together
TendencyRosters ==
    {<<PlayerPerf("p1", "top", ch)>> : ch \in {"Gnar", "Ornn", "Ahri"}}
        \cup {<<PlayerPerf("p1", "top", "Gnar"), PlayerPerf("p2", "mid", "Ornn")>>}

\* games without a timestamp (weight 1) and games three half-lives old
\* (weight 1/8), and one whose timestamp has no offset
TendencyGames ==
    { GameRecord(ts, TeamGameState("teamA", "True", 10, 5, <<>>),
                 TeamGameState("teamB", "False", 5, 10, r)) :
          ts \in {"", "2025-11-01T12:00:00Z"}, r \in TendencyRosters }
      \cup { GameRecord("2025-12-01T12:00:00", TeamGameState("teamA", "True", 10, 5, <<>>),
                        TeamGameState("teamB", "False", 5, 10,
                                      <<PlayerPerf("p1", "top", "Gnar")>>)) }

InitTendencies ==
    /\ games \in SeqsUpTo(TendencyGames, MaxTendencyGames)
    /\ stats = MatchupStats(0, 0)
    /\ env = [hashSeed |-> 0]
    /\ call = NoCall
    /\ ret = NoRet
    /\ runs = <<>>

\* features.py:476 raises on a timestamp without offset
TendenciesOrRaise(gs, ws) ==
    IF Raised(ws) THEN [raised |-> "TypeError"]
    ELSE [value |-> compute_per_player_tendencies(gs, MapSeq(ws, LAMBDA w : w.value))]

ComputePerPlayerTendencies ==
    /\ call.fn = "none"
    /\ call' = [fn |-> "compute_per_player_tendencies"]
    /\ ret' = TendenciesOrRaise(games, RecencyWeights(games))
    /\ UNCHANGED <<games, stats, env, runs>>

NextTendencies == ComputePerPlayerTendencies

SpecTendencies == InitTendencies /\ [][NextTendencies]_vars

RECURSIVE SumOfShares(_, _)
SumOfShares(rows, n) == IF n = 0 THEN Zero ELSE FracAdd(SumOfShares(rows, n - 1), rows[n].share)

\* comfort is the shortest prefix of the picks, in descending weight order,
\* whose shares reach one half
IsShortestHalfPrefix(comfort, picks) ==
    /\ comfort # <<>>
    /\ Len(comfort) <= Len(picks)
    /\ \A i \in DOMAIN comfort : comfort[i] = picks[i]
    /\ \A i, j \in DOMAIN picks : i < j => FracLe(picks[j].weight, picks[i].weight)
    /\ FracLe(Frac(1, 2), SumOfShares(comfort, Len(comfort)))
    /\ FracLt(SumOfShares(comfort, Len(comfort) - 1), Frac(1, 2))
    /\ FracLe(Frac(1, 2), picks[1].share) => Len(comfort) = 1

\* the weight of player pid's picks of character ch over the games
WeightPicked(pid, ch) ==
    FracSum(MapSeq(games, LAMBDA g :
        IF \E i \in DOMAIN g.opponent.players :
              g.opponent.players[i].player_id = pid /\ g.opponent.players[i].character = ch
        THEN _recency_weight(g.start_time).value ELSE Zero))

\* the rows hold the player's picks with their weights and shares
RowsOfPlayer(pid, picks) ==
    /\ {picks[i].character : i \in DOMAIN picks}
          = {ch \in {"Gnar", "Ornn", "Ahri"} : WeightPicked(pid, ch).n > 0}
    /\ \A i \in DOMAIN picks :
          /\ FracEq(picks[i].weight, WeightPicked(pid, picks[i].character))
          /\ FracEq(picks[i].share,
                    FracDiv(picks[i].weight,
                            FracSum(MapSeq(picks, LAMBDA r : r.weight))))

\* C24: for every opponent player with a pick, comfort_picks is the shortest
\* prefix of the player's picks in descending weight order whose shares sum
\* to at least one half: non-empty, reaching one half, below one half
\* without its last element, and of length 1 when the top pick has at least
\* half of the weight.
C24_ComfortPicksShortestPrefix ==
    Returned("compute_per_player_tendencies") =>
        \A i \in DOMAIN ret.value.per_player :
            /\ RowsOfPlayer(ret.value.per_player[i].k,
                            ret.value.per_player[i].v.pick_distribution)
            /\ IsShortestHalfPrefix(ret.value.per_player[i].v.comfort_picks,
                                    ret.value.per_player[i].v.pick_distribution)

\* C24 witness: a player with three picks of weight 1 each has two comfort
\* picks, and one with weights 1 and 1 has one
C24_Witness ==
    /\ Returned("compute_per_player_tendencies")
    /\ \E i \in DOMAIN ret.value.per_player :
          /\ Len(ret.value.per_player[i].v.pick_distribution) = 3
          /\ Len(ret.value.per_player[i].v.comfort_picks) = 2
          /\ FracEq(ret.value.per_player[i].v.comfort_picks[1].share, Frac(1, 3))

(***************************************************************************)
(* Specification SpecRecency: the _recency_weight calls made on the        *)
(* start_time of the games of a list (features.py:21-28).  runs logs the   *)
(* calls made so far.                                                      *)
(***************************************************************************)
MaxRecencyGames == 3

MaxRecencyCalls == 2

RecencyGames ==
    { GameRecord(TimeStrings[i], TeamGameState("teamA", None, 0, 0, <<>>),
                 TeamGameState("teamB", None, 0, 0, <<>>)) : i \in DOMAIN TimeStrings }

InitRecency ==
    /\ games \in SeqsUpTo(RecencyGames, MaxRecencyGames)
    /\ stats = MatchupStats(0, 0)
    /\ env = [hashSeed |-> 0]
    /\ call = NoCall
    /\ ret = NoRet
    /\ runs = <<>>

RecencyWeightOf(ts) ==
    /\ call' = [fn |-> "_recency_weight", ts |-> ts]
    /\ ret' = _recency_weight(ts)
    /\ runs' = Append(runs, [ts |-> ts, result |-> _recency_weight(ts)])

\* features.py:21-28, called with a game's start_time
RecencyWeight ==
    /\ Len(runs) < MaxRecencyCalls
    /\ \E i \in DOMAIN games : RecencyWeightOf(games[i].start_time)
    /\ UNCHANGED <<games, stats, env>>

NextRecency == RecencyWeight

SpecRecency == InitRecency /\ [][NextRecency]_vars

\* the age in days of a parsed time
AgeDays(ts) == Today - _parse_time(ts).day

\* C25: _recency_weight never raises and returns a weight in (0, 1]: 1 for
\* an empty or unparsable string and for a time not in the past, and
\* 0.5 ^ (age in days / 30) for a past time, with or without a timezone
\* designator, non-increasing in age.
C25_RecencyWeightTotal ==
    call.fn = "_recency_weight" =>
        /\ "value" \in DOMAIN ret
        /\ FracLt(Zero, ret.value) /\ FracLe(ret.value, One)
        /\ (~_parse_time(call.ts).parsed \/ AgeDays(call.ts) <= 0) => FracEq(ret.value, One)
        /\ (_parse_time(call.ts).parsed /\ AgeDays(call.ts) > 0) =>
              FracEq(ret.value, Frac(1, 2 ^ (AgeDays(call.ts) \div 30)))
        /\ \A a, b \in DOMAIN runs :
              (/\ _parse_time(runs[a].ts).parsed /\ _parse_time(runs[b].ts).parsed
               /\ AgeDays(runs[a].ts) <= AgeDays(runs[b].ts)) =>
                  FracLe(runs[b].result.value, runs[a].result.value)

(***************************************************************************)
(* Specification SpecDrift: compute_randomness with the split of its drift *)
(* sub-score (randomness.py:77-81) kept in call.                           *)
(***************************************************************************)
MaxDriftGames == 3

DriftGames ==
    { GameRecord("2025-11-01T12:00:00Z", TeamGameState("teamA", None, 0, 0, <<>>),
                 TeamGameState("teamB", None, 1, 1, <<PlayerPerf("p1", "top", "Gnar")>>)),
      GameRecord("2025-12-01T12:00:00Z", TeamGameState("teamA", None, 0, 0, <<>>),
                 TeamGameState("teamB", None, 1, 1, <<PlayerPerf("p1", "top", "Gnar")>>)),
      GameRecord("2999-01-01T00:00:00Z", TeamGameState("teamA", None, 0, 0, <<>>),
                 TeamGameState("teamB", None, 1, 1, <<PlayerPerf("p1", "top", "Ornn")>>)),
      GameRecord("", TeamGameState("teamA", None, 0, 0, <<>>),
                 TeamGameState("teamB", None, 1, 1, <<PlayerPerf("p1", "top", "Ornn")>>)) }

InitDrift ==
    /\ games \in SeqsUpTo(DriftGames, MaxDriftGames)
    /\ stats = MatchupStats(0, 0)
    /\ env = [hashSeed |-> 0]
    /\ call = NoCall
    /\ ret = NoRet
    /\ runs = <<>>

\* randomness.py:78  split = max(1, int(len(ordered) * 0.75))
SplitOf(ordered) == Max(1, (Len(ordered) * 75) \div 100)

\* randomness.py:77-80
DriftSplit(ordered, split) ==
    [ordered |-> ordered,
     prev_games |-> SubSeq(ordered, 1, split),
     recent_games |-> SubSeq(ordered, split + 1, Len(ordered))]

ComputeRandomnessOn(gs, c) ==
    /\ ret' = [value |-> compute_randomness(gs, c.cards)]
    /\ call' = [fn |-> "compute_randomness",
                split |-> IF gs = <<>> THEN DriftSplit(<<>>, 0)
                          ELSE DriftSplit(_sorted_by_time(gs), SplitOf(_sorted_by_time(gs)))]

\* randomness.py:48-105
ComputeRandomnessSplit ==
    /\ call.fn = "none"
    /\ \E sample \in ClusterSamples(games) :
          ComputeRandomnessOn(games, cluster_scenarios_with_labels(games, sample))
    /\ UNCHANGED <<games, stats, env, runs>>

NextDrift == ComputeRandomnessSplit

SpecDrift == InitDrift /\ [][NextDrift]_vars

\* s and t hold the same games the same number of times
SameGames(s, t) ==
    /\ Len(s) = Len(t)
    /\ \A g \in Range(s) \cup Range(t) :
          Count(s, LAMBDA x : x = g) = Count(t, LAMBDA x : x = g)

\* C26: for n >= 1 games the older part holds max(1, floor(0.75 n)) games
\* and the recent part the others; together they are the games, no game of
\* the recent part is earlier (by start_time string) than one of the older
\* part, the recent part is non-empty, and the drift is 0 when the two
\* pick distributions are equal.
C26_DriftSplit ==
    (Returned("compute_randomness") /\ games # <<>>) =>
        /\ Len(call.split.prev_games) = Max(1, (3 * Len(games)) \div 4)
        /\ SameGames(call.split.prev_games \o call.split.recent_games, games)
        /\ \A a \in DOMAIN call.split.prev_games, b \in DOMAIN call.split.recent_games :
              ~StrLt(call.split.recent_games[b].start_time,
                     call.split.prev_games[a].start_time)
        /\ call.split.recent_games # <<>>
        /\ _normalize(_distribution_from_games(call.split.prev_games))
              = _normalize(_distribution_from_games(call.split.recent_games))
              => ret.value.drift = 0

(***************************************************************************)
(* Specification SpecPlan: _build_plan_template called as build_report     *)
(* calls it (report.py:214-226), on the tendencies and the randomness of a *)
(* list of up to MaxPlanGames games.                                       *)
(***************************************************************************)
MaxPlanGames == 3

\* a full roster of one-trick players; the same with a substitute on a
\* sixth character; the top player on another pick beside a player without
\* id; an old game; a game whose timestamp has no offset
PlanGames ==
    { GameRecord("", TeamGameState("teamA", "True", 10, 5, <<>>),
                 TeamGameState("teamB", "False", 5, 10,
                               <<PlayerPerf("p1", "top", "Gnar"), PlayerPerf("p2", "jungle", "Vi"),
                                 PlayerPerf("p3", "mid", "Ahri"), PlayerPerf("p4", "bot", "Jinx"),
                                 PlayerPerf("p5", "support", "Lulu")>>)),
      GameRecord("", TeamGameState("teamA", "True", 10, 5, <<>>),
                 TeamGameState("teamB", "False", 5, 10,
                               <<PlayerPerf("p1", "top", "Gnar"), PlayerPerf("p2", "jungle", "Vi"),
                                 PlayerPerf("p3", "mid", "Ahri"), PlayerPerf("p4", "bot", "Jinx"),
                                 PlayerPerf("p6", "support", "Ornn")>>)),
      GameRecord("", TeamGameState("teamA", "False", 5, 10, <<>>),
                 TeamGameState("teamB", "True", 10, 5,
                               <<PlayerPerf("p1", "top", "Ornn"), PlayerPerf("", "mid", "Ahri")>>)),
      GameRecord("2025-11-01T12:00:00Z", TeamGameState("teamA", "False", 5, 10, <<>>),
                 TeamGameState("teamB", "True", 10, 5, <<PlayerPerf("p1", "top", "Sejuani")>>)),
      GameRecord("2025-12-01T12:00:00", TeamGameState("teamA", "False", 5, 10, <<>>),
                 TeamGameState("teamB", "True", 10, 5, <<PlayerPerf("p1", "top", "Gnar")>>)) }

InitPlan ==
    /\ games \in SeqsUpTo(PlanGames, MaxPlanGames)
    /\ stats = MatchupStats(0, 0)
    /\ env = [hashSeed |-> 0]
    /\ call = NoCall
    /\ ret = NoRet
    /\ runs = <<>>

BuildPlanOn(per_player, draft, randomness) ==
    /\ call' = [fn |-> "_build_plan_template", per_player |-> per_player, draft |-> draft]
    /\ ret' = [value |-> _build_plan_template(per_player, draft, randomness)]

\* report.py:214-226; nothing is built when a recency weight raises
\* (features.py:476)
BuildPlanTemplate ==
    /\ call.fn = "none"
    /\ ~Raised(RecencyWeights(games))
    /\ \E sample \in ClusterSamples(games) :
          BuildPlanOn(compute_per_player_tendencies(games, Weights(games)).per_player,
                      compute_team_draft_tendencies(games, Weights(games)),
                      compute_randomness(games,
                                         cluster_scenarios_with_labels(games, sample).cards))
    /\ UNCHANGED <<games, stats, env, runs>>

\* report.py:214: compute_per_player_tendencies raises
BuildPlanRaises ==
    /\ call.fn = "none"
    /\ Raised(RecencyWeights(games))
    /\ call' = [fn |-> "build_report"]
    /\ ret' = [raised |-> "TypeError"]
    /\ UNCHANGED <<games, stats, env, runs>>

NextPlan == BuildPlanTemplate \/ BuildPlanRaises

SpecPlan == InitPlan /\ [][NextPlan]_vars

\* the first three team-priority picks, in priority order
TopPriority(draft) ==
    SubSeq(draft.priority_picks, 1, Min(3, Len(draft.priority_picks)))

\* the top comfort picks that hold at least half of their player's weight
HalfShareComforts(per_player) ==
    {per_player[i].v.comfort_picks[1].character :
        i \in {j \in DOMAIN per_player :
                  /\ per_player[j].v.comfort_picks # <<>>
                  /\ FracLe(Frac(1, 2), per_player[j].v.comfort_picks[1].share)}}

BanListIs(bans, top, comforts) ==
    /\ \A a, b \in DOMAIN bans : a # b => bans[a] # bans[b]
    /\ Len(bans) <= 5
    /\ Len(bans) >= Len(top)
    /\ \A i \in DOMAIN top : bans[i] = top[i].character
    /\ Range(bans) \subseteq {top[i].character : i \in DOMAIN top} \cup comforts
    /\ Len(bans) < 5 => comforts \subseteq Range(bans)

\* C27: the ban list has no duplicates and at most 5 entries, begins with
\* the top team-priority picks (up to 3) in priority order, holds nothing
\* but those and the top comfort picks of players with a share of at least
\* one half, and holds each of these unless the cap of 5 is reached.
C27_BanList ==
    Returned("_build_plan_template") =>
        BanListIs(ret.value.ban_plan, TopPriority(call.draft),
                  HalfShareComforts(call.per_player))

\* C27 witness: six one-trick players on six characters: three priority
\* picks, two comfort picks, and the sixth cut by the cap
C27_Witness ==
    /\ Returned("_build_plan_template")
    /\ Len(ret.value.ban_plan) = 5
    /\ Cardinality(HalfShareComforts(call.per_player)) = 6
    /\ ~(HalfShareComforts(call.per_player) \subseteq Range(ret.value.ban_plan))

(***************************************************************************)
(* Specification SpecQuery: GridGraphQLClient.query (grid_client.py:39-91) *)
(* attempt by attempt.  env.cache maps a request key (the hash of url, gql *)
(* and variables) to the data stored for it, or to "none"; call holds the  *)
(* call's locals and runs the responses to its POSTs, in order.            *)
(***************************************************************************)
MaxRetries == 3

MaxQueries == 2

RequestKeys == {"q1", "q2"}

DataValues == {"d1", "d2"}

\* what one session.post can bring: an exception of the transport, a status
\* that is retried, another error status, a body with rate-limit errors, a
\* body with other errors, a body without data, a body with data
Responses ==
    {[kind |-> k] : k \in {"exception", "retryable_status", "error_status",
                           "rate_limit_errors", "other_errors", "no_data"}}
        \cup {[kind |-> "data", data |-> v] : v \in DataValues}

InitQuery ==
    /\ games = <<>>
    /\ stats = MatchupStats(0, 0)
    /\ env \in [hashSeed : {0}, enabled : BOOLEAN, cache : [RequestKeys -> {"none"}],
                queries : {0}]
    /\ call = [fn |-> "none", pc |-> "done"]
    /\ ret = NoRet
    /\ runs = <<>>

\* grid_client.py:47-55
QueryCallOn(key, retries, hit) ==
    /\ call' = [fn |-> "query", key |-> key, retries |-> retries, attempt |-> 0,
                hit |-> hit, pc |-> IF hit THEN "done" ELSE "loop"]
    /\ ret' = IF hit THEN [value |-> env.cache[key]] ELSE NoRet
    /\ runs' = <<>>
    /\ env' = [env EXCEPT !.queries = @ + 1]

QueryCall ==
    /\ call.pc = "done"
    /\ env.queries < MaxQueries
    /\ \E key \in RequestKeys, retries \in 0..MaxRetries :
          QueryCallOn(key, retries, env.enabled /\ env.cache[key] # "none")
    /\ UNCHANGED <<games, stats>>

\* grid_client.py:59-79, 87-89: the attempt ends without a result; `continue`
\* and the except clause both go on to the next attempt.  The RuntimeError
\* of lines 77 and 79 is raised inside the try and caught at line 87.
AttemptFails(resp) ==
    /\ resp.kind # "data"
    /\ call' = [call EXCEPT !.attempt = @ + 1]
    /\ UNCHANGED <<ret, env>>

\* grid_client.py:81-86
AttemptSucceeds(resp) ==
    /\ resp.kind = "data"
    /\ call' = [call EXCEPT !.attempt = @ + 1, !.pc = "done"]
    /\ ret' = [value |-> resp.data]
    /\ env' = IF env.enabled THEN [env EXCEPT !.cache[call.key] = resp.data] ELSE env

\* grid_client.py:56-89: one pass of `for attempt in range(retries)`
QueryAttempt ==
    /\ call.fn = "query" /\ call.pc = "loop"
    /\ call.attempt < call.retries
    /\ \E resp \in Responses :
          /\ runs' = Append(runs, resp)
          /\ AttemptFails(resp) \/ AttemptSucceeds(resp)
    /\ UNCHANGED <<games, stats>>

\* grid_client.py:91
QueryGivesUp ==
    /\ call.fn = "query" /\ call.pc = "loop"
    /\ call.attempt = call.retries
    /\ call' = [call EXCEPT !.pc = "done"]
    /\ ret' = [raised |-> "RuntimeError"]
    /\ UNCHANGED <<games, stats, env, runs>>

NextQuery == QueryCall \/ QueryAttempt \/ QueryGivesUp

SpecQuery == InitQuery /\ [][NextQuery]_vars

\* the number of POSTs of the call is bounded, a result is the data of the
\* first good response, and a failure is a RuntimeError after the last attempt
QueryEndsAsClaimed ==
    call.fn = "query" =>
        /\ Len(runs) <= call.retries
        /\ \A i \in DOMAIN runs : i < Len(runs) => runs[i].kind # "data"
        /\ (call.pc = "done" /\ ~call.hit) =>
              IF runs # <<>> /\ runs[Len(runs)].kind = "data"
              THEN ret = [value |-> runs[Len(runs)].data]
              ELSE ret = [raised |-> "RuntimeError"] /\ Len(runs) = call.retries

\* the cache holds a key only with the cache enabled, a call that finds its
\* key returns what is stored without a POST, and a call that succeeds
\* leaves its data under its key
CacheAsClaimed ==
    /\ ~env.enabled => \A k \in RequestKeys : env.cache[k] = "none"
    /\ (call.fn = "query" /\ call.hit) =>
          runs = <<>> /\ ret = [value |-> env.cache[call.key]]
    /\ (call.fn = "query" /\ ~call.hit /\ call.pc = "done" /\ env.enabled) =>
          IF "value" \in DOMAIN ret THEN env.cache[call.key] = ret.value
          ELSE env.cache[call.key] = "none"

\* C28: query makes at most `retries` POSTs; it returns the data of the
\* first good response and otherwise raises RuntimeError after the last
\* attempt; a response with GraphQL errors other than rate-limit errors is
\* not retried; the cache is written only on success and a later call with
\* the same key is answered from it without a POST.
C28_QueryRetries ==
    /\ QueryEndsAsClaimed
    /\ CacheAsClaimed
    /\ call.fn = "query" =>
          \A i \in DOMAIN runs : runs[i].kind = "other_errors" => i = Len(runs)

(***************************************************************************)
(* Specification SpecPaginate: paginate_connection                         *)
(* (grid_client.py:109-144), one pass of its loop per step, drained by     *)
(* list(...) as list_tournaments and list_all_series do.  call holds the   *)
(* cursor, the cursors requested and the pages received; runs holds the    *)
(* nodes yielded.  The server answers each request with any page; the      *)
(* MaxPages-th page it serves is a last one.                               *)
(***************************************************************************)
MaxPages == 3

\* the edges of a page, each as its node: "none" is a missing or empty node
EdgeLists == {<<>>, <<"n1">>, <<"none", "n2">>, <<"n1", "n1">>}

\* endCursor: null, empty or a cursor
Cursors == {None, "", "c1"}

Pages == [edges : EdgeLists, hasNextPage : BOOLEAN, endCursor : Cursors]

InitPaginate ==
    /\ games = <<>>
    /\ stats = MatchupStats(0, 0)
    /\ env = [hashSeed |-> 0]
    /\ call = [fn |-> "paginate_connection", pc |-> "loop", cursor |-> None,
               requests |-> <<>>, pages |-> <<>>]
    /\ ret = NoRet
    /\ runs = <<>>

\* mutant: every node is yielded, empty or not
NodesOf_every_edge(edges) == edges

\* grid_client.py:133-137
NodesOf(edges) == SelectSeq(edges, LAMBDA node : node # "none")

\* grid_client.py:139-144: the loop breaks after this page
IsLastPage(page) == ~page.hasNextPage \/ page.endCursor \in {None, ""}

\* grid_client.py:124-144: one pass of `while True` on the page received
PaginateOn(page) ==
    /\ call' = [call EXCEPT !.requests = Append(@, call.cursor),
                            !.pages = Append(@, page),
                            !.cursor = IF page.hasNextPage THEN page.endCursor ELSE @,
                            !.pc = IF IsLastPage(page) THEN "done" ELSE "loop"]
    /\ runs' = runs \o NodesOf(page.edges)
    /\ ret' = IF IsLastPage(page) THEN [value |-> runs \o NodesOf(page.edges)] ELSE ret

PaginateFetch ==
    /\ call.pc = "loop"
    /\ \E page \in Pages :
          /\ Len(call.pages) + 1 = MaxPages => IsLastPage(page)
          /\ PaginateOn(page)
    /\ UNCHANGED <<games, stats, env>>

\* grid_client.py:128: fetch_page_fn raises (query_across_endpoints, line 106)
PaginateFetchRaises ==
    /\ call.pc = "loop"
    /\ call' = [call EXCEPT !.requests = Append(@, call.cursor), !.pc = "raised"]
    /\ ret' = [raised |-> "RuntimeError"]
    /\ UNCHANGED <<games, stats, env, runs>>

NextPaginate == PaginateFetch \/ PaginateFetchRaises

SpecPaginate == InitPaginate /\ [][NextPaginate]_vars /\ WF_vars(NextPaginate)

RECURSIVE NonEmptyNodes(_)
\* the non-empty nodes of the pages, in page order and then edge order
NonEmptyNodes(pages) ==
    IF pages = <<>> THEN <<>>
    ELSE NonEmptyNodes(SubSeq(pages, 1, Len(pages) - 1))
            \o SelectSeq(pages[Len(pages)].edges, LAMBDA node : node # "none")

PaginateSafe ==
    /\ runs = NonEmptyNodes(call.pages)
    /\ \A i \in DOMAIN call.requests :
          call.requests[i] = IF i = 1 THEN None ELSE call.pages[i - 1].endCursor
    /\ \A i \in DOMAIN call.pages :
          i < Len(call.pages) =>
             call.pages[i].hasNextPage /\ call.pages[i].endCursor \notin {None, ""}
    /\ call.pc = "done" <=>
          /\ call.pages # <<>>
          /\ Len(call.requests) = Len(call.pages)
          /\ \/ ~call.pages[Len(call.pages)].hasNextPage
             \/ call.pages[Len(call.pages)].endCursor \in {None, ""}
    /\ call.pc = "done" => ret = [value |-> runs]

\* C29: the nodes yielded are the non-empty nodes of the fetched pages, once
\* each, in page order and then edge order; the first page is requested
\* with cursor null and each next one with the endCursor of the page
\* before; no page is fetched after one whose pageInfo has hasNextPage
\* false or an empty endCursor, and the generator ends once the server has
\* returned such a page.
C29_PaginationOrderAndEnd ==
    []PaginateSafe /\ <>(call.pc \in {"done", "raised"})

\* C29 witness: three pages fetched, the second with an empty node that is
\* skipped, and the generator finished
C29_Witness ==
    /\ call.pc = "done"
    /\ Len(call.pages) = 3
    /\ call.pages[2].edges = <<"none", "n2">>
    /\ call.pages[3].edges = <<"n1", "n1">>
    /\ runs = <<"n1", "n2", "n1", "n1">>

\* ------------------------------------------------------------------------
\* handle_report_websocket (src/api/websocket/handlers.py) running
\* GenerateReportUseCase.execute (src/application/use_cases/generate_report.py).
\* runs is the sequence of messages sent on the socket; call.pc is the
\* position of the coroutine; env.closed counts websocket.close() calls.

MaxFetched == 2

\* the first message of the client (handlers.py:64)
WsRequests ==
    [action : {"generate", "ping", None}, teamName : {None, "", "T1"},
     opponentName : {None, "G2"}]

Msg(status, progress, message) ==
    [status |-> status, progress |-> progress, message |-> message]

\* handlers.py:60: the state after websocket.accept()
InitWebSocket ==
    /\ games = <<>>
    /\ stats = <<>>
    /\ env \in [hashSeed : HashSeeds, closed : {0}]
    /\ call = [fn |-> "handle_report_websocket", pc |-> "accepted"]
    /\ ret = NoRet
    /\ runs = <<>>

\* handlers.py:64-96: receive the request, validate it, send `connecting`
ReceiveOn(data) ==
    IF data.action # "generate"
    THEN /\ runs' = Append(runs, Msg("error", 0, "Unknown action"))
         /\ call' = [call EXCEPT !.pc = "returned"] @@ [request |-> data]
         /\ env' = [env EXCEPT !.closed = @ + 1]
    ELSE IF data.teamName \in {None, ""}
    THEN /\ runs' = Append(runs, Msg("error", 0, "teamName is required"))
         /\ call' = [call EXCEPT !.pc = "returned"] @@ [request |-> data]
         /\ env' = [env EXCEPT !.closed = @ + 1]
    ELSE /\ runs' = Append(runs, Msg("connecting", 0, "Initializing..."))
         /\ call' = [call EXCEPT !.pc = "execute"] @@ [request |-> data]
         /\ env' = env

Receive ==
    /\ call.pc = "accepted"
    /\ \E data \in WsRequests : ReceiveOn(data)
    /\ UNCHANGED <<games, stats, ret>>

\* WebSocketProgressCallback.report_progress (handlers.py:30-38)
report_progress(progress, message, status) ==
    runs' = Append(runs, Msg(status, progress, message))

\* generate_report.py:71-74
Progress10 ==
    /\ call.pc = "execute"
    /\ report_progress(10, "Connecting to data sources...", "processing")
    /\ call' = [call EXCEPT !.pc = "fetch"]
    /\ UNCHANGED <<games, stats, env, ret>>

\* generate_report.py:84-96: fetch_matchup_data returns (games, meta)
FetchReturns ==
    /\ call.pc = "fetch"
    /\ \E n \in 0..MaxFetched, meta \in {"empty", "meta"} :
          call' = IF n = 0
                  THEN [call EXCEPT !.pc = "result"]
                          @@ [success |-> FALSE, error |-> "No matches found"]
                  ELSE IF meta = "empty"
                  THEN [call EXCEPT !.pc = "result"]
                          @@ [success |-> FALSE, error |-> "Failed to retrieve match metadata."]
                  ELSE [call EXCEPT !.pc = "progress25"] @@ [fetched |-> n]
    /\ UNCHANGED <<games, stats, env, ret, runs>>

\* generate_report.py:84, 152: fetch_matchup_data raises
FetchRaises ==
    /\ call.pc = "fetch"
    /\ call' = [call EXCEPT !.pc = "except"] @@ [exception |-> "fetch failed"]
    /\ UNCHANGED <<games, stats, env, ret, runs>>

\* generate_report.py:98-101
Progress25 ==
    /\ call.pc = "progress25"
    /\ report_progress(25, "Found games to analyze...", "processing")
    /\ call' = [call EXCEPT !.pc = "progress45"]
    /\ UNCHANGED <<games, stats, env, ret>>

\* generate_report.py:104-107
Progress45 ==
    /\ call.pc = "progress45"
    /\ report_progress(45, "Analyzing draft patterns...", "processing")
    /\ call' = [call EXCEPT !.pc = "build"]
    /\ UNCHANGED <<games, stats, env, ret>>

\* generate_report.py:114: build_raw_report returns a report
BuildReturns ==
    /\ call.pc = "build"
    /\ \E report \in {"empty", "report"} :
          call' = [call EXCEPT !.pc = "progress65"] @@ [report |-> report]
    /\ UNCHANGED <<games, stats, env, ret, runs>>

\* generate_report.py:114, 152: build_raw_report raises
BuildRaises ==
    /\ call.pc = "build"
    /\ call' = [call EXCEPT !.pc = "except"] @@ [exception |-> "build failed"]
    /\ UNCHANGED <<games, stats, env, ret, runs>>

\* generate_report.py:116-125
Progress65 ==
    /\ call.pc = "progress65"
    /\ report_progress(65, "Processing player statistics...", "processing")
    /\ call' = IF call.report = "empty"
               THEN [call EXCEPT !.pc = "result"]
                       @@ [success |-> FALSE, error |-> "Failed to build analysis report."]
               ELSE [call EXCEPT !.pc = "progress80"]
    /\ UNCHANGED <<games, stats, env, ret>>

\* generate_report.py:127-130
Progress80 ==
    /\ call.pc = "progress80"
    /\ report_progress(80, "Generating insights...", "processing")
    /\ call' = [call EXCEPT !.pc = "progress90"]
    /\ UNCHANGED <<games, stats, env, ret>>

\* generate_report.py:141-150
Progress90 ==
    /\ call.pc = "progress90"
    /\ report_progress(90, "Finalizing report...", "processing")
    /\ call' = [call EXCEPT !.pc = "result"] @@ [success |-> TRUE, error |-> None]
    /\ UNCHANGED <<games, stats, env, ret>>

\* generate_report.py:152-160: the except clause of execute
ExecuteExcept ==
    /\ call.pc = "except"
    /\ report_progress(0, "Error: " \o call.exception, "error")
    /\ call' = [call EXCEPT !.pc = "result"]
                  @@ [success |-> FALSE, error |-> call.exception]
    /\ UNCHANGED <<games, stats, env, ret>>

\* handlers.py:116-123: execute returned a failure
ResultFailure ==
    /\ call.pc = "result"
    /\ ~call.success
    /\ runs' = Append(runs, Msg("error", 0, call.error))
    /\ env' = [env EXCEPT !.closed = @ + 1]
    /\ call' = [call EXCEPT !.pc = "returned"]
    /\ UNCHANGED <<games, stats, ret>>

\* handlers.py:126-161: transform the report and send `completed`
Transform ==
    /\ call.pc = "result"
    /\ call.success
    /\ \E raises \in BOOLEAN :
          IF raises
          THEN /\ runs' = Append(runs, Msg("error", 0, "Transform error"))
               /\ env' = [env EXCEPT !.closed = @ + 1]
               /\ call' = [call EXCEPT !.pc = "returned"]
          ELSE /\ runs' = Append(runs, Msg("completed", 100, "Report ready!")
                                          @@ [report |-> call.report])
               /\ env' = env
               /\ call' = [call EXCEPT !.pc = "sleep"]
    /\ UNCHANGED <<games, stats, ret>>

\* handlers.py:164, 183-187: the sleep ends and finally closes the socket
SleepEnds ==
    /\ call.pc = "sleep"
    /\ env' = [env EXCEPT !.closed = @ + 1]
    /\ call' = [call EXCEPT !.pc = "returned"]
    /\ UNCHANGED <<games, stats, ret, runs>>

\* handlers.py:183-187: finally closes the socket again after an early return
FinallyClose ==
    /\ call.pc = "returned"
    /\ env.closed = 1
    /\ runs[Len(runs)].status = "error"
    /\ env' = [env EXCEPT !.closed = @ + 1]
    /\ UNCHANGED <<games, stats, ret, runs, call>>

NextWebSocket ==
    \/ Receive
    \/ Progress10
    \/ FetchReturns
    \/ FetchRaises
    \/ Progress25
    \/ Progress45
    \/ BuildReturns
    \/ BuildRaises
    \/ Progress65
    \/ Progress80
    \/ Progress90
    \/ ExecuteExcept
    \/ ResultFailure
    \/ Transform
    \/ SleepEnds
    \/ FinallyClose

SpecWebSocket == InitWebSocket /\ [][NextWebSocket]_vars

ProgressSteps == <<10, 25, 45, 65, 80, 90>>

IsTerminal(m) ==
    \/ m.status = "completed" /\ m.progress = 100 /\ "report" \in DOMAIN m
    \/ m.status = "error" /\ m.progress = 0

ValidRequest == "request" \in DOMAIN call /\ call.pc # "accepted"
                   /\ call.request.action = "generate"
                   /\ call.request.teamName \notin {None, ""}

\* the messages before the terminal one: `connecting` then a prefix of the
\* processing steps
HeadAsClaimed(head) ==
    /\ head # <<>>
    /\ head[1].status = "connecting" /\ head[1].progress = 0
    /\ Len(head) - 1 <= Len(ProgressSteps)
    /\ \A i \in 2..Len(head) :
          head[i].status = "processing" /\ head[i].progress = ProgressSteps[i - 1]

\* the part of the claim that holds: the first terminal message follows
\* `connecting` and a prefix of the processing steps, and `completed` is
\* sent only after execute returned success
WebSocketPrefixOrdered ==
    ValidRequest =>
       LET firstTerminal == {i \in DOMAIN runs : IsTerminal(runs[i])
                                /\ \A j \in 1..(i - 1) : ~IsTerminal(runs[j])}
       IN  /\ firstTerminal = {} => HeadAsClaimed(runs)
           /\ \A i \in firstTerminal : HeadAsClaimed(SubSeq(runs, 1, i - 1))
           /\ \A i \in DOMAIN runs :
                 runs[i].status = "completed" =>
                    /\ call.success
                    /\ i = Len(runs)
           /\ call.pc = "returned" => firstTerminal # {}

\* C30: on a connection that sent a valid generate request the messages are
\* one `connecting` with progress 0, then `processing` messages with a
\* prefix of 10, 25, 45, 65, 80, 90, then exactly one terminal message
\* (`completed` with progress 100 and the report, or `error` with
\* progress 0); nothing follows the terminal message, `completed` is sent
\* only after execute returned success, and whatever happens in fetching or
\* building exactly one `error` message is sent.
C30_MessagesOrdered ==
    ValidRequest =>
       /\ Count(runs, LAMBDA m : IsTerminal(m)) <= 1
       /\ Count(runs, LAMBDA m : m.status = "error") <= 1
       /\ \A i \in DOMAIN runs : IsTerminal(runs[i]) => i = Len(runs)
       /\ HeadAsClaimed(IF runs # <<>> /\ IsTerminal(runs[Len(runs)])
                        THEN SubSeq(runs, 1, Len(runs) - 1) ELSE runs)
       /\ \A i \in DOMAIN runs : runs[i].status = "completed" => call.success
       /\ call.pc = "returned" => Count(runs, LAMBDA m : IsTerminal(m)) = 1

====
